---- MODULE Spec2Model ----
(***************************************************************************)
(* Model of the GeoJSON paddock server: the upload handlers                *)
(* (routes/upload.js), the Paddock and Project models (models/Paddock.js,  *)
(* models/Project.js) and the project / paddock routes.                    *)
(*                                                                         *)
(* JavaScript values are tagged records: [t |-> "undef"], [t |-> "null"],  *)
(* [t |-> "str", s |-> <<chars>>], [t |-> "num", n |-> k], [t |-> "nan"],  *)
(* [t |-> "arr", a |-> <<...>>] and [t |-> "obj", ...fields].              *)
(* A string is a sequence of one-character strings so that trim and        *)
(* parseFloat are computed, not assumed.  Areas in hectares are integers   *)
(* in units of 1e-6 ha, so that acres * 0.404686 is exact.                 *)
(***************************************************************************)
EXTENDS Integers, Sequences, FiniteSets, TLC

\* ------------------------------------------------------------------ bounds
MaxBatch == 2

MaxPaddocks == 2

MaxProjectsC == 14

MaxGapsC == 1

\* ------------------------------------------------------- JavaScript values
Undef == [t |-> "undef"]

Null == [t |-> "null"]

NaN == [t |-> "nan"]

Str(s) == [t |-> "str", s |-> s]

Num(n) == [t |-> "num", n |-> n]

Arr(s) == [t |-> "arr", a |-> s]

\* obj.key, undefined when the object has no such key
Get(obj, key) == IF key \in DOMAIN obj THEN obj[key] ELSE Undef

\* JavaScript truthiness (the operand of ! and ||)
Truthy(x) ==
  CASE x.t = "undef" -> FALSE
    [] x.t = "null" -> FALSE
    [] x.t = "nan" -> FALSE
    [] x.t = "str" -> Len(x.s) > 0
    [] x.t = "num" -> x.n # 0
    [] OTHER -> TRUE

IsSpace(c) == c = " "

Digits == <<"0", "1", "2", "3", "4", "5", "6", "7", "8", "9">>

IsDigit(c) == \E d \in 1..10 : Digits[d] = c

DigitVal(c) == (CHOOSE d \in 1..10 : Digits[d] = c) - 1

RECURSIVE TrimLeft(_)
TrimLeft(s) == IF Len(s) > 0 /\ IsSpace(Head(s)) THEN TrimLeft(Tail(s)) ELSE s

RECURSIVE TrimRight(_)
TrimRight(s) ==
  IF Len(s) > 0 /\ IsSpace(s[Len(s)]) THEN TrimRight(SubSeq(s, 1, Len(s) - 1)) ELSE s

\* String.prototype.trim, as applied by the schemas' trim: true
Trim(s) == TrimRight(TrimLeft(s))

\* the longest prefix of decimal digits of s, as a number; acc is the value so far
RECURSIVE DigitPrefix(_, _)
DigitPrefix(s, acc) ==
  IF Len(s) > 0 /\ IsDigit(Head(s)) THEN DigitPrefix(Tail(s), 10 * acc + DigitVal(Head(s))) ELSE acc

\* parseFloat on the values the model feeds it: numbers pass through, a string
\* is read as optional blanks, an optional sign and a run of digits, anything
\* after the digits being ignored; no digits gives NaN
ParseFloat(x) ==
  CASE x.t = "num" -> x
    [] x.t = "str" ->
         LET s == TrimLeft(x.s)
             neg == Len(s) > 0 /\ Head(s) = "-"
             body == IF Len(s) > 0 /\ Head(s) \in {"-", "+"} THEN Tail(s) ELSE s
         IN IF Len(body) > 0 /\ IsDigit(Head(body))
            THEN Num(IF neg THEN 0 - DigitPrefix(body, 0) ELSE DigitPrefix(body, 0))
            ELSE NaN
    [] OTHER -> NaN

IsNaN(x) == x.t = "nan"

\* value.toString() for the identifiers the model uses
ToStr(x) ==
  CASE x.t = "str" -> x.s
    [] x.t = "num" -> <<ToString(x.n)>>
    [] OTHER -> <<>>

\* ------------------------------------------------ routes/upload.js, helpers
MaxFeatures == 10000

\* validateGeoJSON without the test for an empty features array
ValidateGeoJSONNoEmptyTest(data) ==
  IF ~Truthy(data) \/ data.t # "obj"
  THEN [ok |-> FALSE, message |-> "Invalid data: must be a non-null object"]
  ELSE IF Get(data, "type") = Str(<<"Feature">>)
  THEN [ok |-> TRUE, value |-> [t |-> "obj", type |-> Str(<<"FeatureCollection">>), features |-> Arr(<<data>>)]]
  ELSE IF Get(data, "type") = Str(<<"FeatureCollection">>)
  THEN IF Get(data, "features").t # "arr"
       THEN [ok |-> FALSE, message |-> "Invalid GeoJSON: features must be an array"]
       ELSE IF Len(data.features.a) > MaxFeatures
       THEN [ok |-> FALSE, message |-> "Invalid GeoJSON: too many features (maximum 10,000 allowed)"]
       ELSE [ok |-> TRUE, value |-> data]
  ELSE [ok |-> FALSE, message |-> "Invalid GeoJSON: type must be \"Feature\" or \"FeatureCollection\""]

\* validateGeoJSON: [ok |-> FALSE] when it throws, else the returned collection
ValidateGeoJSON(data) ==
  IF ~Truthy(data) \/ data.t # "obj"
  THEN [ok |-> FALSE, message |-> "Invalid data: must be a non-null object"]
  ELSE IF Get(data, "type") = Str(<<"Feature">>)
  THEN [ok |-> TRUE, value |-> [t |-> "obj", type |-> Str(<<"FeatureCollection">>), features |-> Arr(<<data>>)]]
  ELSE IF Get(data, "type") = Str(<<"FeatureCollection">>)
  THEN IF Get(data, "features").t # "arr"
       THEN [ok |-> FALSE, message |-> "Invalid GeoJSON: features must be an array"]
       ELSE IF Len(data.features.a) = 0
       THEN [ok |-> FALSE, message |-> "Invalid GeoJSON: features array cannot be empty"]
       ELSE IF Len(data.features.a) > MaxFeatures
       THEN [ok |-> FALSE, message |-> "Invalid GeoJSON: too many features (maximum 10,000 allowed)"]
       ELSE [ok |-> TRUE, value |-> data]
  ELSE [ok |-> FALSE, message |-> "Invalid GeoJSON: type must be \"Feature\" or \"FeatureCollection\""]

\* the property rules with an area_acres rule that only tests presence
PropertyErrorsAreaPresent(props) ==
  (IF ~Truthy(Get(props, "id")) /\ ~Truthy(Get(props, "paddockId"))
   THEN <<"Feature must have id or paddockId property">> ELSE <<>>)
  \o (IF ~Truthy(Get(props, "name")) /\ ~Truthy(Get(props, "paddock_name"))
      THEN <<"Feature must have name or paddock_name property">> ELSE <<>>)
  \o (IF ~Truthy(Get(props, "owner"))
      THEN <<"Feature must have owner property">> ELSE <<>>)
  \o (IF ~Truthy(Get(props, "Project__Name")) /\ ~Truthy(Get(props, "project_name"))
      THEN <<"Feature must have Project__Name or project_name property">> ELSE <<>>)
  \o (IF ~Truthy(Get(props, "area_acres"))
      THEN <<"Feature must have valid area_acres property">> ELSE <<>>)

\* the messages of the rules on feature.properties, in the order of the code
PropertyErrors(props) ==
  (IF ~Truthy(Get(props, "id")) /\ ~Truthy(Get(props, "paddockId"))
   THEN <<"Feature must have id or paddockId property">> ELSE <<>>)
  \o (IF ~Truthy(Get(props, "name")) /\ ~Truthy(Get(props, "paddock_name"))
      THEN <<"Feature must have name or paddock_name property">> ELSE <<>>)
  \o (IF ~Truthy(Get(props, "owner"))
      THEN <<"Feature must have owner property">> ELSE <<>>)
  \o (IF ~Truthy(Get(props, "Project__Name")) /\ ~Truthy(Get(props, "project_name"))
      THEN <<"Feature must have Project__Name or project_name property">> ELSE <<>>)
  \o (IF ~Truthy(Get(props, "area_acres")) \/ IsNaN(ParseFloat(Get(props, "area_acres")))
      THEN <<"Feature must have valid area_acres property">> ELSE <<>>)

\* the message of the geometry rule, if any
GeometryErrors(geometry) ==
  IF ~Truthy(geometry) THEN <<"Feature must have geometry">>
  ELSE IF Get(geometry, "type") # Str(<<"Polygon">>) THEN <<"Feature geometry must be a Polygon">>
  ELSE IF ~Truthy(Get(geometry, "coordinates")) \/ Get(geometry, "coordinates").t # "arr"
  THEN <<"Feature geometry must have coordinates array">>
  ELSE <<>>

\* validateFeature, for a feature that is an object
ValidateFeature(feature) ==
  (IF ~Truthy(Get(feature, "type")) \/ Get(feature, "type") # Str(<<"Feature">>)
   THEN <<"Feature must have type \"Feature\"">> ELSE <<>>)
  \o (IF ~Truthy(Get(feature, "properties"))
      THEN <<"Feature must have properties">>
      ELSE PropertyErrors(feature.properties))
  \o GeometryErrors(Get(feature, "geometry"))

\* a || b
Or(a, b) == IF Truthy(a) THEN a ELSE b

\* ------------------------------------------------------- models/Paddock.js
HaPerAcre == 404686

\* a String path with trim: true: the cast and trimmed value, Undef if unset
TrimmedPath(x) == IF x.t = "str" THEN Str(Trim(x.s)) ELSE x

\* Paddock.createFromGeoJSONFeature (uploadBatch, an opaque id, is left out)
CreateFromGeoJSONFeature(feature) ==
  LET props == feature.properties
      id == Get(props, "id")
      pid == Get(props, "paddockId")
  IN [paddockId |-> IF Truthy(id) /\ Len(ToStr(id)) > 0 THEN Str(ToStr(id))
                    ELSE IF Truthy(pid) /\ Len(ToStr(pid)) > 0 THEN Str(ToStr(pid))
                    ELSE Undef,
      name |-> TrimmedPath(Or(Or(Get(props, "name"), Get(props, "paddock_name")), Str(<<"Unnamed Paddock">>))),
      owner |-> TrimmedPath(Or(Get(props, "owner"), Str(<<"Unknown Owner">>))),
      projectName |-> TrimmedPath(Or(Or(Get(props, "Project__Name"), Get(props, "project_name")), Str(<<"Unknown Project">>))),
      areaAcres |-> Or(ParseFloat(Get(props, "area_acres")), Num(0)),
      geometry |-> feature.geometry,
      areaHectares |-> Undef,
      calculatedAreaHectares |-> Undef,
      centroid |-> Undef,
      isValid |-> TRUE,
      originalProperties |-> props]

\* the validator of polygonSchema.coordinates; a TypeError inside it (no first
\* ring, no first position) fails the validation like a false result
PolygonCoordinatesOk(coords) ==
  /\ Len(coords) >= 1
  /\ Len(coords[1]) >= 4
  /\ coords[1][1][1] = coords[1][Len(coords[1])][1]
  /\ coords[1][1][2] = coords[1][Len(coords[1])][2]

\* required: true on a String path
RequiredStringOk(x) == x.t = "str" /\ Len(x.s) > 0

\* the paths of paddockSchema that fail validation when the document is saved
SchemaErrors(doc) ==
  {p \in {"paddockId"} : ~RequiredStringOk(doc.paddockId)}
  \cup {p \in {"name"} : ~RequiredStringOk(doc.name)}
  \cup {p \in {"owner"} : ~RequiredStringOk(doc.owner)}
  \cup {p \in {"projectName"} : ~RequiredStringOk(doc.projectName)}
  \cup {p \in {"areaAcres"} : doc.areaAcres.t # "num" \/ doc.areaAcres.n < 0}
  \cup {p \in {"geometry"} : ~Truthy(doc.geometry)}
  \cup {p \in {"geometry.type"} : Truthy(doc.geometry) /\ Get(doc.geometry, "type") # Str(<<"Polygon">>)}
  \cup {p \in {"geometry.coordinates"} :
          Truthy(doc.geometry)
          /\ (Get(doc.geometry, "coordinates").t # "arr"
              \/ ~PolygonCoordinatesOk(doc.geometry.coordinates.a))}

\* the pre('save') hook: derived hectares and the vertex-average centroid,
\* kept as the two coordinate sums and the vertex count
PreSave(doc) ==
  LET withHa == IF Truthy(doc.areaAcres) /\ ~Truthy(doc.areaHectares)
                THEN [doc EXCEPT !.areaHectares = Num(doc.areaAcres.n * HaPerAcre)]
                ELSE doc
      ring == doc.geometry.coordinates.a[1]
      SumAt[k \in 0..Len(ring)] ==
        IF k = 0 THEN <<0, 0>> ELSE <<SumAt[k - 1][1] + ring[k][1], SumAt[k - 1][2] + ring[k][2]>>
  IN IF Len(doc.geometry.coordinates.a) > 0 /\ Len(ring) > 0
     THEN [withHa EXCEPT !.centroid =
             [t |-> "obj", type |-> "Point", sumLng |-> SumAt[Len(ring)][1],
              sumLat |-> SumAt[Len(ring)][2], count |-> Len(ring)]]
     ELSE withHa

\* ------------------------------------------------------- models/Project.js
DefaultColor == "#3B82F6"

Colors ==
  <<"#3B82F6", "#EF4444", "#10B981", "#F59E0B", "#8B5CF6", "#EC4899",
    "#06B6D4", "#84CC16", "#F97316", "#6366F1", "#14B8A6", "#F43F5E">>

\* $sum over a field: a missing or non-numeric value adds nothing
NumOrZero(x) == IF x.t = "num" THEN x.n ELSE 0

RECURSIVE SumField(_, _)
SumField(docs, field) ==
  IF Len(docs) = 0 THEN 0 ELSE NumOrZero(Head(docs)[field]) + SumField(Tail(docs), field)

Max(a, b) == IF a >= b THEN a ELSE b

Min(a, b) == IF a <= b THEN a ELSE b

\* the bounds fold over one ring, position by position
RECURSIVE RingBounds(_, _)
RingBounds(ring, b) ==
  IF Len(ring) = 0 THEN b
  ELSE LET coord == Head(ring)
       IN RingBounds(Tail(ring),
            IF Len(coord) >= 2
            THEN [north |-> Max(b.north, coord[2]), south |-> Min(b.south, coord[2]),
                  east |-> Max(b.east, coord[1]), west |-> Min(b.west, coord[1])]
            ELSE b)

\* the bounds fold over the first ring of every paddock of the group
RECURSIVE GroupBounds(_, _)
GroupBounds(docs, b) ==
  IF Len(docs) = 0 THEN b
  ELSE LET coordSet == Head(docs).geometry.coordinates.a
       IN GroupBounds(Tail(docs), IF Len(coordSet) > 0 THEN RingBounds(coordSet[1], b) ELSE b)

\* the $match / $group aggregation of updateProjectStats over the stored paddocks
ProjectGroup(pads, projectName) == SelectSeq(pads, LAMBDA p : p.projectName.s = projectName)

CountValid(docs) == Len(SelectSeq(docs, LAMBDA p : p.isValid))

\* the fields updateProjectStats writes, computed from the group
StatFields(group) ==
  [totalPaddocks |-> Len(group),
   validPaddocks |-> CountValid(group),
   totalAreaAcres |-> SumField(group, "areaAcres"),
   totalAreaHectares |-> SumField(group, "areaHectares"),
   calculatedAreaHectares |-> SumField(group, "calculatedAreaHectares"),
   owners |-> {group[i].owner.s : i \in 1..Len(group)},
   bounds |-> GroupBounds(group, [north |-> -90, south |-> 90, east |-> -180, west |-> 180])]

\* the document findOneAndUpdate leaves: the statistics of the group written over
\* project q, whose colour is kept
WithStats(q, projectName, stat) ==
  [name |-> projectName, totalPaddocks |-> stat.totalPaddocks,
   validPaddocks |-> stat.validPaddocks, totalAreaAcres |-> stat.totalAreaAcres,
   totalAreaHectares |-> stat.totalAreaHectares,
   calculatedAreaHectares |-> stat.calculatedAreaHectares,
   owners |-> stat.owners, bounds |-> stat.bounds,
   color |-> q.color, customized |-> q.customized]

\* an upsert that writes the statistics only when it inserts
UpsertInsertOnly(projs, projectName, stat) ==
  IF \E i \in 1..Len(projs) : projs[i].name = projectName
  THEN projs
  ELSE Append(projs, WithStats([color |-> DefaultColor, customized |-> FALSE], projectName, stat))

\* findOneAndUpdate with upsert: the document named projectName is updated in
\* place, or inserted last (newest createdAt) with the default colour
Upsert(projs, projectName, stat) ==
  IF \E i \in 1..Len(projs) : projs[i].name = projectName
  THEN [i \in 1..Len(projs) |->
          IF projs[i].name = projectName THEN WithStats(projs[i], projectName, stat) ELSE projs[i]]
  ELSE Append(projs, WithStats([color |-> DefaultColor, customized |-> FALSE], projectName, stat))

\* updateProjectStats that keeps the document of a project without paddocks
ApplyStatsKeepEmpty(projs, projectName, group) ==
  IF Len(group) = 0
  THEN projs
  ELSE Upsert(projs, projectName, StatFields(group))

\* the two outcomes of updateProjectStats, given the aggregated group
ApplyStats(projs, projectName, group) ==
  IF Len(group) = 0
  THEN SelectSeq(projs, LAMBDA q : q.name # projectName)
  ELSE Upsert(projs, projectName, StatFields(group))

\* Project.updateProjectStats: the project collection afterwards.  The collection
\* is kept in ascending createdAt order; customized is history, true once the
\* colour was set through PUT /projects/:name
UpdateProjectStats(pads, projs, projectName) ==
  ApplyStats(projs, projectName, ProjectGroup(pads, projectName))

\* the test of assignColors without the comparison to the default colour
NeedsColorUnsetOnly(project) == project.color = ""

\* the test of assignColors: colour unset or still the default
NeedsColor(project) == project.color = "" \/ project.color = DefaultColor

\* assignColors with a palette cursor that starts after the colours in use
AssignColorsFromUsed(projs) ==
  [i \in 1..Len(projs) |->
     IF NeedsColor(projs[i])
     THEN [projs[i] EXCEPT !.color =
             Colors[((i - 1 + Len(SelectSeq(projs, LAMBDA q : ~NeedsColor(q)))) % Len(Colors)) + 1]]
     ELSE projs[i]]

\* Project.assignColors over the collection sorted by createdAt
AssignColors(projs) ==
  [i \in 1..Len(projs) |->
     IF NeedsColor(projs[i])
     THEN [projs[i] EXCEPT !.color = Colors[((i - 1) % Len(Colors)) + 1]]
     ELSE projs[i]]

\* ------------------------------------------------- routes/upload.js, handlers
\* the paddockId fallback of the loop body
WithPaddockId(paddock, i) ==
  IF ~Truthy(paddock.paddockId)
  THEN [paddock EXCEPT !.paddockId = Str(<<"paddock_", ToString(i)>>)]
  ELSE paddock

\* the placeholder area: copied from areaHectares as it is before the save
WithCalculatedArea(entry, feature, paddock) ==
  IF entry = "json" \/ Truthy(Get(feature.geometry, "coordinates"))
  THEN [paddock EXCEPT !.calculatedAreaHectares = paddock.areaHectares]
  ELSE paddock

\* a save that stores the document although its validation failed
SaveResultStoreInvalid(i, paddock, schemaErrors) ==
  IF schemaErrors # {}
  THEN [saved |-> <<PreSave(paddock)>>,
        errors |-> <<[featureIndex |-> i, error |-> "ValidationError", details |-> schemaErrors]>>]
  ELSE [saved |-> <<PreSave(paddock)>>, errors |-> <<>>]

\* paddock.save(): validation, then the pre('save') hook; a validation error
\* is caught by the loop and becomes an error entry
SaveResult(i, paddock, schemaErrors) ==
  IF schemaErrors # {}
  THEN [saved |-> <<>>,
        errors |-> <<[featureIndex |-> i, error |-> "ValidationError", details |-> schemaErrors]>>]
  ELSE [saved |-> <<PreSave(paddock)>>, errors |-> <<>>]

SavePaddock(i, paddock) == SaveResult(i, paddock, SchemaErrors(paddock))

\* the loop body after validateFeature returned validationErrors
ValidatedStep(entry, feature, i, validationErrors) ==
  IF Len(validationErrors) > 0
  THEN [saved |-> <<>>, errors |-> <<[featureIndex |-> i, errors |-> validationErrors]>>]
  ELSE SavePaddock(i, WithCalculatedArea(entry, feature,
                        WithPaddockId(CreateFromGeoJSONFeature(feature), i)))

\* one pass of the per-feature loop: the saved paddock or the error entry; a
\* null feature makes validateFeature throw a TypeError, which the loop catches
FeatureStep(entry, feature, i) ==
  IF feature.t \in {"null", "undef"}
  THEN [saved |-> <<>>,
        errors |-> <<[featureIndex |-> i, error |-> "TypeError", details |-> {}]>>]
  ELSE ValidatedStep(entry, feature, i, ValidateFeature(feature))

\* the counters after one pass when a rejected feature is not counted
AddStepNoFailed(acc, step) ==
  [total |-> acc.total,
   successful |-> acc.successful + Len(step.saved),
   failed |-> acc.failed,
   errors |-> acc.errors \o step.errors,
   savedPaddocks |-> acc.savedPaddocks \o step.saved]

\* the counters and lists after one pass
AddStep(acc, step) ==
  [total |-> acc.total,
   successful |-> acc.successful + Len(step.saved),
   failed |-> acc.failed + Len(step.errors),
   errors |-> acc.errors \o step.errors,
   savedPaddocks |-> acc.savedPaddocks \o step.saved]

\* the loop from feature k (1-based) on: results and the paddocks saved
RECURSIVE RunLoop(_, _, _, _)
RunLoop(entry, features, k, acc) ==
  IF k > Len(features) THEN acc
  ELSE RunLoop(entry, features, k + 1, AddStep(acc, FeatureStep(entry, features[k], k - 1)))

ProcessFeatures(entry, features) ==
  RunLoop(entry, features, 1,
    [total |-> Len(features), successful |-> 0, failed |-> 0, errors |-> <<>>,
     savedPaddocks |-> <<>>])

\* the project names of a batch when only the first saved paddock is looked at
DistinctNamesFirstOnly(docs, seen) ==
  IF Len(docs) = 0 THEN seen ELSE <<Head(docs).projectName.s>>

\* [...new Set(savedPaddocks.map(p => p.projectName))]: first occurrences, in order
RECURSIVE DistinctNames(_, _)
DistinctNames(docs, seen) ==
  IF Len(docs) = 0 THEN seen
  ELSE DistinctNames(Tail(docs),
         IF \E i \in 1..Len(seen) : seen[i] = Head(docs).projectName.s
         THEN seen ELSE Append(seen, Head(docs).projectName.s))

\* updateProjectStats for each name in turn
RECURSIVE UpdateAll(_, _, _)
UpdateAll(pads, projs, names) ==
  IF Len(names) = 0 THEN projs
  ELSE UpdateAll(pads, UpdateProjectStats(pads, projs, Head(names)), Tail(names))

NoResults == [total |-> 0, successful |-> 0, failed |-> 0, errors |-> <<>>]

\* -------------------------------------------------------------------- inputs
Polygon(ring) == [t |-> "obj", type |-> Str(<<"Polygon">>), coordinates |-> Arr(<<ring>>)]

Feature(properties, geometry) ==
  [t |-> "obj", type |-> Str(<<"Feature">>), properties |-> properties, geometry |-> geometry]

FeatureCollection(features) ==
  [t |-> "obj", type |-> Str(<<"FeatureCollection">>), features |-> Arr(features)]

ClosedRing == <<<<0, 0>>, <<2, 0>>, <<2, 2>>, <<0, 0>>>>

OtherRing == <<<<-3, 1>>, <<5, 1>>, <<5, 4>>, <<1, 6>>, <<-3, 1>>>>

OpenRing == <<<<0, 0>>, <<2, 0>>, <<2, 2>>, <<0, 1>>>>

\* accepted: project A
FeatureA ==
  Feature([t |-> "obj", id |-> Num(1), name |-> Str(<<"N", "1">>), owner |-> Str(<<"Bob">>),
           Project__Name |-> Str(<<"A">>), area_acres |-> Str(<<"1", "0">>)],
          Polygon(ClosedRing))

\* accepted: project B, through the alternative keys, a trailing blank and "0" acres
FeatureB ==
  Feature([t |-> "obj", paddockId |-> Str(<<"7">>), paddock_name |-> Str(<<"N", "2">>),
           owner |-> Str(<<"Al">>), project_name |-> Str(<<"B", " ">>),
           area_acres |-> Str(<<"0">>)],
          Polygon(OtherRing))

\* rejected by validateFeature: one message
FeatureNoOwner ==
  Feature([t |-> "obj", id |-> Num(2), name |-> Str(<<"N", "3">>),
           Project__Name |-> Str(<<"A">>), area_acres |-> Str(<<"5">>)],
          Polygon(ClosedRing))

\* rejected by validateFeature: three messages
FeatureBad == [t |-> "obj", type |-> Str(<<"Point">>)]

\* passes validateFeature, rejected when saved: the ring is open
FeatureOpen ==
  Feature([t |-> "obj", id |-> Num(3), name |-> Str(<<"N", "4">>), owner |-> Str(<<"Bob">>),
           Project__Name |-> Str(<<"B">>), area_acres |-> Str(<<"4">>)],
          Polygon(OpenRing))

\* a paddock of the project named "constructor"
FeatureProto ==
  Feature([t |-> "obj", id |-> Num(4), name |-> Str(<<"N", "5">>), owner |-> Str(<<"Al">>),
           Project__Name |-> Str(<<"constructor">>), area_acres |-> Str(<<"2">>)],
          Polygon(ClosedRing))

FarRing == <<<<200, 0>>, <<202, 0>>, <<202, 2>>, <<200, 0>>>>

\* complete properties, closed ring, longitudes beyond 180
FeatureFar ==
  Feature([t |-> "obj", id |-> Num(5), name |-> Str(<<"N", "6">>), owner |-> Str(<<"Bob">>),
           Project__Name |-> Str(<<"A">>), area_acres |-> Str(<<"3">>)],
          Polygon(FarRing))

\* complete properties, closed ring, a negative area
FeatureNeg ==
  Feature([t |-> "obj", id |-> Num(6), name |-> Str(<<"N", "7">>), owner |-> Str(<<"Al">>),
           Project__Name |-> Str(<<"B">>), area_acres |-> Str(<<"-", "5">>)],
          Polygon(ClosedRing))

\* complete properties, closed ring, an area that is not a number
FeatureAbc ==
  Feature([t |-> "obj", id |-> Num(7), name |-> Str(<<"N", "8">>), owner |-> Str(<<"Al">>),
           Project__Name |-> Str(<<"B">>), area_acres |-> Str(<<"a", "b", "c">>)],
          Polygon(ClosedRing))

\* the features of the runs on areas and coordinates
FieldPool == <<FeatureA, FeatureB, FeatureFar, FeatureNeg, FeatureAbc, FeatureNoOwner>>

\* the features sent to the file-storage server
SimplePool == <<FeatureA, FeatureB, FeatureOpen, FeatureProto, FeatureBad, Null>>

FeaturePool == <<FeatureA, FeatureB, FeatureNoOwner, FeatureBad, FeatureOpen, Null>>

\* inputs validateGeoJSON rejects; the last has one feature more than the cap
InvalidData ==
  <<Null, Arr(<<FeatureA>>), Str(<<"x">>),
    [t |-> "obj", type |-> Str(<<"Topology">>)],
    [t |-> "obj", type |-> Str(<<"FeatureCollection">>)],
    FeatureCollection(<<>>),
    FeatureCollection([k \in 1..(MaxFeatures + 1) |-> FeatureA])>>

RECURSIVE Pow(_, _)
Pow(b, e) == IF e = 0 THEN 1 ELSE b * Pow(b, e - 1)

\* the j-th sequence of len pool features, j read as len digits in base Len(FeaturePool)
Batch(len, j) ==
  [k \in 1..len |-> FeaturePool[((j \div Pow(Len(FeaturePool), k - 1)) % Len(FeaturePool)) + 1]]

\* the name of the k-th project of the many-projects runs
ProjName(k) == <<"P", ToString(k)>>

\* accepted: the one paddock of project ProjName(k)
ProjectFeature(k) ==
  Feature([t |-> "obj", id |-> Num(k), name |-> Str(<<"N">>), owner |-> Str(<<"Bob">>),
           Project__Name |-> Str(ProjName(k)), area_acres |-> Str(<<"1", "0">>)],
          Polygon(ClosedRing))

\* the j-th sequence of len features of the file-storage pool
SimpleBatch(len, j) ==
  [k \in 1..len |-> SimplePool[((j \div Pow(Len(SimplePool), k - 1)) % Len(SimplePool)) + 1]]

\* the j-th sequence of len features of FieldPool
FieldBatch(len, j) ==
  [k \in 1..len |-> FieldPool[((j \div Pow(Len(FieldPool), k - 1)) % Len(FieldPool)) + 1]]

\* the request bodies of the runs on areas and coordinates
FieldInputs ==
  UNION {{<<"fields", len, j>> : j \in 0..(Pow(Len(FieldPool), len) - 1)} : len \in 1..MaxBatch}
  \cup {<<"fieldFeature", 1, j>> : j \in 1..Len(FieldPool)}

\* the request bodies sent to the file-storage server
SimpleInputs ==
  UNION {{<<"simple", len, j>> : j \in 0..(Pow(Len(SimplePool), len) - 1)} : len \in 1..MaxBatch}
  \cup {<<"simpleFeature", 1, j>> : j \in {k \in 1..Len(SimplePool) : SimplePool[k].t = "obj"}}
  \cup {<<"invalid", 0, j>> : j \in 1..Len(InvalidData)}

\* A request body is named by a designator <<kind, len, j>>: a FeatureCollection
\* of a batch, one pool feature at top level, one of the invalid inputs, or the
\* FeatureCollection of the one paddock of project j
UploadInputs ==
  UNION {{<<"collection", len, j>> : j \in 0..(Pow(Len(FeaturePool), len) - 1)} : len \in 1..MaxBatch}
  \cup {<<"feature", 1, j>> : j \in {k \in 1..Len(FeaturePool) : FeaturePool[k].t = "obj"}}
  \cup {<<"invalid", 0, j>> : j \in 1..Len(InvalidData)}

DataOf(input) ==
  CASE input[1] = "collection" -> FeatureCollection(Batch(input[2], input[3]))
    [] input[1] = "feature" -> FeaturePool[input[3]]
    [] input[1] = "invalid" -> InvalidData[input[3]]
    [] input[1] = "project" -> FeatureCollection(<<ProjectFeature(input[3])>>)
    [] input[1] = "fields" -> FeatureCollection(FieldBatch(input[2], input[3]))
    [] input[1] = "fieldFeature" -> FieldPool[input[3]]
    [] input[1] = "simple" -> FeatureCollection(SimpleBatch(input[2], input[3]))
    [] input[1] = "simpleFeature" -> SimplePool[input[3]]

\* how many paddocks handling the input can add at most
Demand(input) == IF input[1] = "invalid" THEN 0 ELSE input[2]

\* --------------------------------------------------------------------- state
\* paddocks: the Paddock collection, in insertion order
\* projects: the Project collection, in ascending createdAt order
\* req, res: the request last handled and its response
VARIABLES paddocks, projects, req, res

vars == <<paddocks, projects, req, res>>

Init ==
  /\ paddocks = <<>>
  /\ projects = <<>>
  /\ req = [op |-> "none"]
  /\ res = [op |-> "none", status |-> 0, results |-> NoResults]

\* a response that leaves both collections as they are
Fail(status) ==
  /\ res' = [op |-> "upload", status |-> status, results |-> NoResults]
  /\ UNCHANGED <<paddocks, projects>>

\* after the loop: the statistics of the affected projects, the colours, the response
Commit(done, stored) ==
  /\ paddocks' = stored
  /\ projects' = AssignColors(UpdateAll(stored, projects, DistinctNames(done.savedPaddocks, <<>>)))
  /\ res' = [op |-> "upload", status |-> 200,
             results |-> [total |-> done.total, successful |-> done.successful,
                          failed |-> done.failed, errors |-> done.errors]]

Finish(done) == Commit(done, paddocks \o done.savedPaddocks)

\* features is normalizedData.features (file upload) or geoJsonData.features
\* (raw body); taking .length of undefined is a TypeError, answered with 500
Process(entry, features) ==
  IF features.t # "arr" THEN Fail(500) ELSE Finish(ProcessFeatures(entry, features.a))

Validated(entry, data, checked) ==
  IF ~checked.ok THEN Fail(400)
  ELSE Process(entry, IF entry = "geojson" THEN checked.value.features ELSE Get(data, "features"))

Handle(entry, data) ==
  IF entry = "json" /\ ~Truthy(data) THEN Fail(400)
  ELSE Validated(entry, data, ValidateGeoJSON(data))

\* POST /upload/geojson (entry = "geojson", the input is the parsed file) and
\* POST /upload/json (entry = "json", the input is the request body)
Upload(entry, input) ==
  /\ req' = [op |-> "upload", entry |-> entry, input |-> input]
  /\ Handle(entry, DataOf(input))

RemoveAt(seq, i) == SubSeq(seq, 1, i - 1) \o SubSeq(seq, i + 1, Len(seq))

\* DELETE /paddocks/:id; i = 0 stands for an id no paddock has
DeletePaddock(i) ==
  /\ req' = [op |-> "deletePaddock", idx |-> i]
  /\ IF i = 0
     THEN /\ res' = [op |-> "deletePaddock", status |-> 404, results |-> NoResults]
          /\ UNCHANGED <<paddocks, projects>>
     ELSE /\ paddocks' = RemoveAt(paddocks, i)
          /\ projects' = UpdateProjectStats(paddocks', projects, paddocks[i].projectName.s)
          /\ res' = [op |-> "deletePaddock", status |-> 200, results |-> NoResults]

\* DELETE /projects/:name
DeleteProject(name) ==
  /\ req' = [op |-> "deleteProject", name |-> name]
  /\ paddocks' = SelectSeq(paddocks, LAMBDA p : p.projectName.s # name)
  /\ projects' = SelectSeq(projects, LAMBDA q : q.name # name)
  /\ res' = [op |-> "deleteProject",
             status |-> IF \E i \in 1..Len(projects) : projects[i].name = name THEN 200 ELSE 404,
             results |-> NoResults]

\* PUT /projects/:name with a colour in the body
UpdateProject(name, color) ==
  /\ req' = [op |-> "updateProject", name |-> name, color |-> color]
  /\ projects' = [i \in 1..Len(projects) |->
                    IF projects[i].name = name
                    THEN [projects[i] EXCEPT !.color = color, !.customized = TRUE]
                    ELSE projects[i]]
  /\ res' = [op |-> "updateProject",
             status |-> IF \E i \in 1..Len(projects) : projects[i].name = name THEN 200 ELSE 404,
             results |-> NoResults]
  /\ UNCHANGED paddocks

\* GET /projects: the listing runs an assignColors pass
ListProjects ==
  /\ req' = [op |-> "listProjects"]
  /\ projects' = AssignColors(projects)
  /\ res' = [op |-> "listProjects", status |-> 200, results |-> NoResults]
  /\ UNCHANGED paddocks

\* POST /projects/refresh-stats
RefreshStats ==
  /\ req' = [op |-> "refreshStats"]
  /\ projects' = AssignColors(UpdateAll(paddocks, projects, DistinctNames(paddocks, <<>>)))
  /\ res' = [op |-> "refreshStats", status |-> 200, results |-> NoResults]
  /\ UNCHANGED paddocks

\* the reduce of GET /projects/stats/summary over the Project documents
RECURSIVE SumProjects(_, _)
SumProjects(projs, field) ==
  IF Len(projs) = 0 THEN 0 ELSE Head(projs)[field] + SumProjects(Tail(projs), field)

\* the data of GET /projects/stats/summary
ProjectSummaryData(projs) ==
  [projectCount |-> Len(projs),
   totalPaddocks |-> SumProjects(projs, "totalPaddocks"),
   validPaddocks |-> SumProjects(projs, "validPaddocks"),
   totalAreaHectares |-> SumProjects(projs, "totalAreaHectares"),
   calculatedAreaHectares |-> SumProjects(projs, "calculatedAreaHectares")]

\* the data of GET /paddocks/stats/summary: one $group over all paddocks, or the
\* zero summary when there is none
PaddockSummaryData(pads) ==
  [projectCount |-> Cardinality({pads[i].projectName.s : i \in 1..Len(pads)}),
   ownerCount |-> Cardinality({pads[i].owner.s : i \in 1..Len(pads)}),
   totalPaddocks |-> Len(pads),
   validPaddocks |-> CountValid(pads),
   totalAreaAcres |-> SumField(pads, "areaAcres"),
   totalAreaHectares |-> SumField(pads, "areaHectares"),
   calculatedAreaHectares |-> SumField(pads, "calculatedAreaHectares")]

\* GET /projects/stats/summary
ProjectSummary ==
  /\ req' = [op |-> "projectSummary"]
  /\ res' = [op |-> "projectSummary", status |-> 200, results |-> ProjectSummaryData(projects)]
  /\ UNCHANGED <<paddocks, projects>>

\* GET /paddocks/stats/summary
PaddockSummary ==
  /\ req' = [op |-> "paddockSummary"]
  /\ res' = [op |-> "paddockSummary", status |-> 200, results |-> PaddockSummaryData(paddocks)]
  /\ UNCHANGED <<paddocks, projects>>

\* ------------------------------------------------------ inputs of the routes
RouteNames == {<<"A">>, <<"B">>}

UserColors == {DefaultColor, "#123456"}

\* ------------------------------------------------------------- specification
UploadGeojson == \E input \in UploadInputs :
  Len(paddocks) + Demand(input) <= MaxPaddocks /\ Upload("geojson", input)

UploadJson == \E input \in UploadInputs :
  Len(paddocks) + Demand(input) <= MaxPaddocks /\ Upload("json", input)

DeletePaddockReq == \E i \in 0..Len(paddocks) : DeletePaddock(i)

DeleteProjectReq == \E name \in RouteNames : DeleteProject(name)

UpdateProjectReq == \E name \in RouteNames, color \in UserColors : UpdateProject(name, color)

Next ==
  \/ UploadGeojson
  \/ UploadJson
  \/ DeletePaddockReq
  \/ DeleteProjectReq
  \/ UpdateProjectReq
  \/ ListProjects
  \/ RefreshStats
  \/ ProjectSummary
  \/ PaddockSummary

Spec == Init /\ [][Next]_vars

\* ------------------------------------------- specification, many projects
\* Every project has one paddock and projects are created in the order
\* ProjName(1), ProjName(2), ...; at most MaxGapsC of them are missing below the
\* newest.  No colour is ever set by a user.
ProjIndex(name) == CHOOSE k \in 1..MaxProjectsC : ProjName(k) = name

NewestIndex == IF Len(projects) = 0 THEN 0 ELSE ProjIndex(projects[Len(projects)].name)

Gaps == NewestIndex - Len(projects)

UploadProjectC ==
  /\ NewestIndex < MaxProjectsC
  /\ Upload("geojson", <<"project", 1, NewestIndex + 1>>)

DeletePaddockC == \E i \in 1..Len(paddocks) : Gaps < MaxGapsC /\ DeletePaddock(i)

DeleteProjectC == \E i \in 1..Len(projects) : Gaps < MaxGapsC /\ DeleteProject(projects[i].name)

ListProjectsC == ListProjects

NextColors ==
  \/ UploadProjectC
  \/ DeletePaddockC
  \/ DeleteProjectC
  \/ ListProjectsC

SpecColors == Init /\ [][NextColors]_vars

\* --------------------------- specification, areas and coordinates
\* The two upload routes with features that differ in area_acres and in their
\* coordinates, and the deletion of a paddock.
UploadFieldsGeojson == \E input \in FieldInputs :
  Len(paddocks) + Demand(input) <= MaxPaddocks /\ Upload("geojson", input)

UploadFieldsJson == \E input \in FieldInputs :
  Len(paddocks) + Demand(input) <= MaxPaddocks /\ Upload("json", input)

DeletePaddockF == \E i \in 1..Len(paddocks) : DeletePaddock(i)

NextFields ==
  \/ UploadFieldsGeojson
  \/ UploadFieldsJson
  \/ DeletePaddockF

SpecFields == Init /\ [][NextFields]_vars

\* ------------------------- models/Project.js, the file-storage server
\* In this specification paddocks and projects are the contents of
\* paddocks.json and projects.json.

\* the names every plain object inherits from Object.prototype: projectMap[name]
\* is truthy for them before anything was stored under name
InheritedKeys ==
  {<<"constructor">>, <<"hasOwnProperty">>, <<"isPrototypeOf">>, <<"propertyIsEnumerable">>,
   <<"toLocaleString">>, <<"toString">>, <<"valueOf">>, <<"__proto__">>,
   <<"__defineGetter__">>, <<"__defineSetter__">>, <<"__lookupGetter__">>, <<"__lookupSetter__">>}

\* the entry of a project seen for the first time
NewGroup(projectName) ==
  [name |-> projectName, totalPaddocks |-> 0, validPaddocks |-> 0, totalAreaHectares |-> 0,
   calculatedAreaHectares |-> 0, owners |-> <<>>, color |-> DefaultColor]

\* the entry after one more paddock; owners is a Set kept in insertion order
CountPaddock(project, paddock) ==
  [project EXCEPT
     !.totalPaddocks = @ + 1,
     !.validPaddocks = IF paddock.isValid THEN @ + 1 ELSE @,
     !.totalAreaHectares = @ + Or(paddock.areaHectares, Num(0)).n,
     !.calculatedAreaHectares = @ + Or(paddock.calculatedAreaHectares, Num(0)).n,
     !.owners = IF \E i \in 1..Len(@) : @[i] = paddock.owner THEN @ ELSE Append(@, paddock.owner)]

\* projectMap with the entry for name present
WithGroup(groups, name) ==
  IF \E i \in 1..Len(groups) : groups[i].name = name THEN groups ELSE Append(groups, NewGroup(name))

\* one pass of the forEach: the entries, in insertion order, after the paddock
AddToGroups(groups, paddock) ==
  [i \in 1..Len(groups) |->
     IF groups[i].name = paddock.projectName THEN CountPaddock(groups[i], paddock) ELSE groups[i]]

RECURSIVE GroupAll(_, _)
GroupAll(pads, groups) ==
  IF Len(pads) = 0 THEN groups
  ELSE GroupAll(Tail(pads), AddToGroups(WithGroup(groups, Head(pads).projectName), Head(pads)))

\* the colours of calculateProjectStats: by position among the groups
GroupColors(groups) ==
  [i \in 1..Len(groups) |-> [groups[i] EXCEPT !.color = Colors[((i - 1) % Len(Colors)) + 1]]]

\* calculateProjectStats over the paddocks read from the file.  For a paddock
\* whose projectName is an inherited key the lookup yields a value of
\* Object.prototype, no entry is made, and project.owners.add throws a TypeError
\* before anything is written
CalculateProjectStats(pads) ==
  IF \E i \in 1..Len(pads) : pads[i].projectName.t = "str" /\ pads[i].projectName.s \in InheritedKeys
  THEN [threw |-> TRUE]
  ELSE [threw |-> FALSE, projects |-> GroupColors(GroupAll(pads, <<>>))]

\* the record the upload makes of a feature (uploadBatch and uploadedAt left
\* out; the generated id without its timestamp)
SimplePaddock(feature, index) ==
  LET props == feature.properties
      acres == Or(ParseFloat(Get(props, "area_acres")), Num(0))
  IN [paddockId |-> IF Truthy(Get(props, "id")) /\ Len(ToStr(props.id)) > 0
                    THEN Str(ToStr(props.id)) ELSE Str(<<"paddock_", ToString(index)>>),
      name |-> Or(Get(props, "name"), Str(<<"Unnamed Paddock">>)),
      owner |-> Or(Get(props, "owner"), Str(<<"Unknown Owner">>)),
      projectName |-> props.Project__Name,
      areaAcres |-> acres,
      areaHectares |-> Num(acres.n * HaPerAcre),
      calculatedAreaHectares |-> Num(acres.n * HaPerAcre),
      geometry |-> feature.geometry,
      isValid |-> TRUE]

\* one pass of the forEach of the upload: the paddock pushed or the error entry
SimpleStep(feature, index) ==
  IF feature.t \in {"null", "undef"}
  THEN [saved |-> <<>>, errors |-> <<[featureIndex |-> index, error |-> "TypeError"]>>]
  ELSE IF \/ ~Truthy(Get(feature, "properties"))
          \/ ~Truthy(Get(feature.properties, "Project__Name"))
          \/ ~Truthy(Get(feature, "geometry"))
  THEN [saved |-> <<>>,
        errors |-> <<[featureIndex |-> index, error |-> "Missing required properties or geometry"]>>]
  ELSE [saved |-> <<SimplePaddock(feature, index)>>, errors |-> <<>>]

RECURSIVE SimpleLoop(_, _, _)
SimpleLoop(features, k, acc) ==
  IF k > Len(features) THEN acc
  ELSE SimpleLoop(features, k + 1, AddStep(acc, SimpleStep(features[k], k - 1)))

\* after the loop: writePaddocks, then calculateProjectStats, which writes
\* projects.json unless it throws; a throw is answered with 500
SimpleCommit(done, stats) ==
  /\ paddocks' = paddocks \o done.savedPaddocks
  /\ projects' = IF stats.threw THEN projects ELSE stats.projects
  /\ res' = [op |-> "simpleUpload", status |-> IF stats.threw THEN 500 ELSE 200,
             results |-> IF stats.threw THEN NoResults
                         ELSE [total |-> done.total, successful |-> done.successful,
                               failed |-> done.failed, errors |-> done.errors]]

SimpleFinish(done) == SimpleCommit(done, CalculateProjectStats(paddocks \o done.savedPaddocks))

\* the inline structure test of the upload, the same five rules as validateGeoJSON
SimpleValidated(checked) ==
  IF ~checked.ok
  THEN /\ res' = [op |-> "simpleUpload", status |-> 400, results |-> NoResults]
       /\ UNCHANGED <<paddocks, projects>>
  ELSE SimpleFinish(SimpleLoop(checked.value.features.a, 1,
         [total |-> Len(checked.value.features.a), successful |-> 0, failed |-> 0,
          errors |-> <<>>, savedPaddocks |-> <<>>]))

\* POST /api/v1/upload/json of the file-storage server
SimpleUpload(input) ==
  /\ req' = [op |-> "simpleUpload", input |-> input]
  /\ SimpleValidated(ValidateGeoJSON(DataOf(input)))

\* GET /api/v1/projects of the file-storage server
SimpleProjects(stats) ==
  /\ req' = [op |-> "simpleProjects"]
  /\ projects' = IF stats.threw THEN projects ELSE stats.projects
  /\ res' = [op |-> "simpleProjects", status |-> IF stats.threw THEN 500 ELSE 200,
             results |-> NoResults]
  /\ UNCHANGED paddocks

SimpleUploadReq == \E input \in SimpleInputs :
  Len(paddocks) + Demand(input) <= MaxPaddocks /\ SimpleUpload(input)

SimpleProjectsReq == SimpleProjects(CalculateProjectStats(paddocks))

NextSimple ==
  \/ SimpleUploadReq
  \/ SimpleProjectsReq

SpecSimple == Init /\ [][NextSimple]_vars

\* ------------------------------------- validateFeature as a pure function
\* the values a property of the argument takes, by position; the first of each
\* list stands for a property that is absent
IdChoices == <<Undef, Num(1), Str(<<"7">>)>>

NameChoices == <<Undef, Str(<<"N", "1">>), Str(<<"N", "2">>)>>

OwnerChoices == <<Undef, Str(<<"Bob">>)>>

ProjectChoices == <<Undef, Str(<<"A">>), Str(<<"B">>)>>

AreaChoices ==
  <<Undef, Str(<<"1", "0">>), Str(<<"0">>), Num(0), Num(10), Str(<<"a", "b", "c">>),
    Str(<<"-", "5">>), Str(<<>>)>>

GeometryChoices == <<Undef, Polygon(ClosedRing)>>

\* the arguments of validateFeature: which value each property takes; position
\* 2 of the identifier, name and project lists is the first key (id, name,
\* Project__Name) and position 3 the alternative key
ValidatorInputs ==
  (1..Len(IdChoices)) \X (1..Len(NameChoices)) \X (1..Len(OwnerChoices))
    \X (1..Len(ProjectChoices)) \X (1..Len(AreaChoices)) \X (1..Len(GeometryChoices))

\* the keys of the properties object named by d
PropertyKeys(d) ==
  {"t"}
    \cup (IF d[1] = 2 THEN {"id"} ELSE IF d[1] = 3 THEN {"paddockId"} ELSE {})
    \cup (IF d[2] = 2 THEN {"name"} ELSE IF d[2] = 3 THEN {"paddock_name"} ELSE {})
    \cup (IF d[3] = 2 THEN {"owner"} ELSE {})
    \cup (IF d[4] = 2 THEN {"Project__Name"} ELSE IF d[4] = 3 THEN {"project_name"} ELSE {})
    \cup (IF d[5] > 1 THEN {"area_acres"} ELSE {})

\* the properties object named by d
PropertiesOf(d) ==
  [k \in PropertyKeys(d) |->
     CASE k = "t" -> "obj"
       [] k \in {"id", "paddockId"} -> IdChoices[d[1]]
       [] k \in {"name", "paddock_name"} -> NameChoices[d[2]]
       [] k = "owner" -> OwnerChoices[d[3]]
       [] k \in {"Project__Name", "project_name"} -> ProjectChoices[d[4]]
       [] OTHER -> AreaChoices[d[5]]]

\* the feature named by d
ValidatorFeature(d) ==
  IF d[6] = 1
  THEN [t |-> "obj", type |-> Str(<<"Feature">>), properties |-> PropertiesOf(d)]
  ELSE Feature(PropertiesOf(d), GeometryChoices[d[6]])

\* an argument is chosen and validateFeature has not been called yet
InitValidator ==
  /\ paddocks = <<>>
  /\ projects = <<>>
  /\ req \in {[op |-> "feature", input |-> d] : d \in ValidatorInputs}
  /\ res = [op |-> "none", status |-> 0, results |-> NoResults]

\* the call validateFeature(feature, index): its result is the errors array
ValidateFeatureCall ==
  /\ req.op = "feature"
  /\ res.op = "none"
  /\ res' = [op |-> "validateFeature", status |-> 0,
             results |-> [NoResults EXCEPT !.errors = ValidateFeature(ValidatorFeature(req.input))]]
  /\ UNCHANGED <<paddocks, projects, req>>

NextValidator == ValidateFeatureCall

SpecValidator == InitValidator /\ [][NextValidator]_vars

\* ------------------------------------------- client/src/utils/index.ts
True == [t |-> "bool", b |-> TRUE]

\* typeof x
TypeOf(x) ==
  CASE x.t = "undef" -> "undefined"
    [] x.t = "num" -> "number"
    [] x.t = "nan" -> "number"
    [] x.t = "str" -> "string"
    [] x.t = "bool" -> "boolean"
    [] OTHER -> "object"

\* Array.isArray(x)
IsArray(x) == x.t = "arr"

\* the outcome of a validator: it returned, or it threw an Error with a message
Returned == [threw |-> FALSE]

Threw(message) == [threw |-> TRUE, message |-> message]

\* the first outcome of the sequence that is a throw, as forEach stops there
RECURSIVE FirstThrow(_)
FirstThrow(outcomes) ==
  IF outcomes = <<>> THEN Returned
  ELSE IF Head(outcomes).threw THEN Head(outcomes)
  ELSE FirstThrow(Tail(outcomes))

\* validatePosition: position is a sequence of integers here, so the typeof
\* and isFinite tests pass
ValidatePosition(position) ==
  IF Len(position) < 2 THEN Threw("must be an array of at least 2 numbers [longitude, latitude]")
  ELSE IF position[1] < -180 \/ position[1] > 180 THEN Threw("longitude is out of range (-180 to 180)")
  ELSE IF position[2] < -90 \/ position[2] > 90 THEN Threw("latitude is out of range (-90 to 90)")
  ELSE Returned

\* the body of coordinates.forEach for one ring of a Polygon
ValidateRing(ring) ==
  IF Len(ring) < 4 THEN Threw("Polygon ring must have at least 4 positions")
  ELSE LET positions == FirstThrow([i \in 1..Len(ring) |-> ValidatePosition(ring[i])])
       IN IF positions.threw THEN positions
          ELSE IF ring[1][1] # ring[Len(ring)][1] \/ ring[1][2] # ring[Len(ring)][2]
          THEN Threw("Polygon ring must be closed (first and last positions must be the same)")
          ELSE Returned

\* validateGeometryCoordinates, for a geometry whose coordinates is an array
ValidateGeometryCoordinates(geometry) ==
  CASE geometry.type = Str(<<"Point">>) -> ValidatePosition(geometry.coordinates.a)
    [] geometry.type = Str(<<"LineString">>) ->
         IF Len(geometry.coordinates.a) < 2 THEN Threw("LineString must have at least 2 positions")
         ELSE FirstThrow([i \in 1..Len(geometry.coordinates.a) |->
                            ValidatePosition(geometry.coordinates.a[i])])
    [] geometry.type = Str(<<"Polygon">>) ->
         IF Len(geometry.coordinates.a) = 0 THEN Threw("Polygon coordinates must be a non-empty array")
         ELSE FirstThrow([r \in 1..Len(geometry.coordinates.a) |->
                            ValidateRing(geometry.coordinates.a[r])])
    [] OTHER -> Returned

ValidGeometryTypes ==
  {Str(<<"Point">>), Str(<<"LineString">>), Str(<<"Polygon">>), Str(<<"MultiPoint">>),
   Str(<<"MultiLineString">>), Str(<<"MultiPolygon">>), Str(<<"GeometryCollection">>)}

\* a property that, when provided, must be a non-empty string
BadString(x) == x # Undef /\ (TypeOf(x) # "string" \/ Trim(x.s) = <<>>)

\* the geometry part of validateGeoJSONFeature
ValidateFeatureGeometry(geometry) ==
  IF geometry = Null THEN Returned
  ELSE IF ~Truthy(geometry) \/ TypeOf(geometry) # "object" \/ IsArray(geometry)
  THEN Threw("Geometry must be an object or null")
  ELSE IF Get(geometry, "type") \notin ValidGeometryTypes
  THEN Threw("Geometry type must be one of: Point, LineString, Polygon, MultiPoint, MultiLineString, MultiPolygon, GeometryCollection")
  ELSE IF ~IsArray(Get(geometry, "coordinates")) /\ geometry.type # Str(<<"GeometryCollection">>)
  THEN Threw("Geometry coordinates must be an array (except for GeometryCollection)")
  ELSE IF geometry.type = Str(<<"GeometryCollection">>)
  THEN IF ~IsArray(Get(geometry, "geometries"))
       THEN Threw("GeometryCollection must have a geometries array") ELSE Returned
  ELSE ValidateGeometryCoordinates(geometry)

\* validateGeoJSONFeature(feature, index)
ValidateGeoJSONFeature(feature) ==
  IF ~Truthy(feature) \/ TypeOf(feature) # "object" \/ IsArray(feature)
  THEN Threw("Must be a non-null object")
  ELSE IF Get(feature, "type") # Str(<<"Feature">>) THEN Threw("Type must be \"Feature\"")
  ELSE IF Get(feature, "properties") # Null
          /\ (TypeOf(Get(feature, "properties")) # "object" \/ IsArray(Get(feature, "properties")))
  THEN Threw("Properties must be an object or null")
  ELSE LET props == IF Truthy(Get(feature, "properties")) THEN feature.properties ELSE [t |-> "obj"]
       IN IF Get(props, "id") # Undef /\ TypeOf(Get(props, "id")) \notin {"number", "string"}
          THEN Threw("Properties.id must be a number or string if provided")
          ELSE IF Get(props, "area_acres") # Undef
                  /\ (Get(props, "area_acres").t # "num" \/ props.area_acres.n < 0)
          THEN Threw("Properties.area_acres must be a non-negative number if provided")
          ELSE IF BadString(Get(props, "owner"))
          THEN Threw("Properties.owner must be a non-empty string if provided")
          ELSE IF BadString(Get(props, "name"))
          THEN Threw("Properties.name must be a non-empty string if provided")
          ELSE IF Get(props, "Project__Name") # Null /\ BadString(Get(props, "Project__Name"))
          THEN Threw("Properties.Project__Name must be a non-empty string or null if provided")
          ELSE ValidateFeatureGeometry(Get(feature, "geometry"))

\* the crs tests of validateGeoJSONFeatureCollection
ValidateCrs(crs) ==
  IF crs = Undef THEN Returned
  ELSE IF ~Truthy(crs) \/ TypeOf(crs) # "object"
  THEN Threw("Invalid GeoJSON: CRS must be an object if provided")
  ELSE IF Get(crs, "type") # Str(<<"name">>) THEN Threw("Invalid GeoJSON: CRS type must be \"name\"")
  ELSE IF ~Truthy(Get(crs, "properties")) \/ TypeOf(Get(crs.properties, "name")) # "string"
  THEN Threw("Invalid GeoJSON: CRS properties.name must be a string")
  ELSE Returned

\* validateGeoJSONFeatureCollection(data)
ValidateGeoJSONFeatureCollection(data) ==
  IF ~Truthy(data) \/ TypeOf(data) # "object" \/ IsArray(data)
  THEN Threw("Invalid GeoJSON: Data must be a non-null object")
  ELSE IF Get(data, "type") # Str(<<"FeatureCollection">>)
  THEN Threw("Invalid GeoJSON: Type must be \"FeatureCollection\"")
  ELSE IF Get(data, "name") # Undef /\ TypeOf(Get(data, "name")) # "string"
  THEN Threw("Invalid GeoJSON: Name must be a string if provided")
  ELSE IF ValidateCrs(Get(data, "crs")).threw THEN ValidateCrs(Get(data, "crs"))
  ELSE IF ~IsArray(Get(data, "features")) THEN Threw("Invalid GeoJSON: Features must be an array")
  ELSE IF Len(data.features.a) = 0 THEN Threw("Invalid GeoJSON: Features array cannot be empty")
  ELSE IF Len(data.features.a) > MaxFeatures
  THEN Threw("Invalid GeoJSON: Too many features (maximum 10,000 allowed)")
  ELSE FirstThrow([i \in 1..Len(data.features.a) |-> ValidateGeoJSONFeature(data.features.a[i])])

\* isValidFeature(feature), for a feature typed as GeoJSONFeature
IsValidFeature(feature) ==
  /\ Truthy(feature.geometry)
  /\ Truthy(Get(feature.geometry, "coordinates"))
  /\ IsArray(feature.geometry.coordinates)
  /\ Len(feature.geometry.coordinates.a) # 0
  /\ Truthy(feature.properties.Project__Name)
  /\ Trim(feature.properties.Project__Name.s) # <<>>

\* filterValidFeatures(features)
FilterValidFeatures(features) == SelectSeq(features, IsValidFeature)

\* the index of the group keyed by name, 0 when there is none
GroupIndex(groups, name) ==
  IF \E g \in 1..Len(groups) : groups[g].key = name
  THEN CHOOSE g \in 1..Len(groups) : groups[g].key = name
  ELSE 0

\* the reducer of groupFeaturesByProject; groups is the accumulator object as
\* the sequence of its own keys, in insertion order, with their arrays
AddFeature(groups, feature) ==
  LET name == feature.properties.Project__Name.s
      g == GroupIndex(groups, name)
  IN IF g = 0
     THEN Append(groups, [key |-> name, features |-> <<feature>>])
     ELSE [groups EXCEPT ![g].features = Append(@, feature)]

RECURSIVE ReduceGroups(_, _)
ReduceGroups(groups, features) ==
  IF features = <<>> THEN groups
  ELSE ReduceGroups(AddFeature(groups, Head(features)), Tail(features))

\* groupFeaturesByProject(features): the accumulator is a plain object, so for a
\* name it inherits from Object.prototype groups[name] is truthy without being
\* an array, and groups[name].push is not a function
GroupFeaturesByProject(features) ==
  LET validFeatures == FilterValidFeatures(features)
  IN IF \E i \in 1..Len(validFeatures) :
          validFeatures[i].properties.Project__Name.s \in InheritedKeys
     THEN [threw |-> TRUE, groups |-> <<>>]
     ELSE [threw |-> FALSE, groups |-> ReduceGroups(<<>>, validFeatures)]

\* twice the signed planar area of a ring (shoelace sum)
RECURSIVE Shoelace(_, _)
Shoelace(ring, k) ==
  IF k >= Len(ring) THEN 0
  ELSE ring[k][1] * ring[k + 1][2] - ring[k + 1][1] * ring[k][2] + Shoelace(ring, k + 1)

\* turf.area of a polygon of one ring, by the planar shoelace sum in place of
\* the geodesic one: zero exactly for a degenerate ring
TurfArea(ring) == IF Shoelace(ring, 1) < 0 THEN 0 - Shoelace(ring, 1) ELSE Shoelace(ring, 1)

\* turf.polygon(coordinates) does not throw: every ring has at least 4
\* positions and is closed
TurfPolygonOk(geometry) ==
  /\ geometry.type = Str(<<"Polygon">>)
  /\ \A r \in 1..Len(geometry.coordinates.a) :
       LET ring == geometry.coordinates.a[r]
       IN Len(ring) >= 4 /\ ring[1] = ring[Len(ring)]

\* isValidGeometry(feature)
IsValidGeometry(feature) ==
  /\ Truthy(feature.geometry)
  /\ Truthy(Get(feature.geometry, "coordinates"))
  /\ IsArray(feature.geometry.coordinates)
  /\ Len(feature.geometry.coordinates.a) # 0
  /\ TurfPolygonOk(feature.geometry)
  /\ TurfArea(feature.geometry.coordinates.a[1]) > 0

\* calculateFeatureAreaHectares(feature), in the units of TurfArea
CalculateFeatureAreaHectares(feature) ==
  IF IsValidGeometry(feature) THEN TurfArea(feature.geometry.coordinates.a[1]) ELSE 0

\* features.reduce((sum, feature) => sum + feature.properties.area_acres, 0)
RECURSIVE SumAcres(_)
SumAcres(features) ==
  IF features = <<>> THEN 0 ELSE Head(features).properties.area_acres.n + SumAcres(Tail(features))

RECURSIVE SumCalculated(_)
SumCalculated(features) ==
  IF features = <<>> THEN 0
  ELSE CalculateFeatureAreaHectares(Head(features)) + SumCalculated(Tail(features))

\* the entry getProjectStatistics makes for one group
ProjectEntry(group) ==
  [t |-> "obj",
   projectName |-> group.key,
   featureCount |-> Len(group.features),
   validPaddockCount |-> Len(SelectSeq(group.features, IsValidGeometry)),
   totalAreaAcres |-> SumAcres(group.features),
   totalAreaHectares |-> SumAcres(group.features) * HaPerAcre,
   calculatedAreaHectares |-> SumCalculated(SelectSeq(group.features, IsValidGeometry)),
   owners |-> {group.features[i].properties.owner : i \in 1..Len(group.features)}]

\* entry put into a sequence sorted by calculated area descending, after the
\* entries that compare equal (Array.prototype.sort is stable)
RECURSIVE InsertEntry(_, _)
InsertEntry(sorted, entry) ==
  IF sorted = <<>> THEN <<entry>>
  ELSE IF Head(sorted).calculatedAreaHectares >= entry.calculatedAreaHectares
  THEN <<Head(sorted)>> \o InsertEntry(Tail(sorted), entry)
  ELSE <<entry>> \o sorted

RECURSIVE SortEntries(_, _)
SortEntries(sorted, entries) ==
  IF entries = <<>> THEN sorted
  ELSE SortEntries(InsertEntry(sorted, Head(entries)), Tail(entries))

\* getProjectStatistics(groupedFeatures)
GetProjectStatistics(groups) ==
  SortEntries(<<>>, [g \in 1..Len(groups) |-> ProjectEntry(groups[g])])

\* the features of the client runs
ClientFeature(id, acres, owner, project, geometry) ==
  Feature([t |-> "obj", id |-> id, area_acres |-> Num(acres), owner |-> Str(<<owner>>),
           name |-> Str(<<"F">>), Project__Name |-> project],
          geometry)

Point(position) == [t |-> "obj", type |-> Str(<<"Point">>), coordinates |-> Arr(position)]

\* the square of the tests, and a larger square
ClientRing == <<<<-109, 47>>, <<-108, 47>>, <<-108, 48>>, <<-109, 48>>, <<-109, 47>>>>

LargeRing == <<<<-110, 45>>, <<-107, 45>>, <<-107, 48>>, <<-110, 48>>, <<-110, 45>>>>

ClientPool ==
  << ClientFeature(Num(1), 100, "Owner 1", Str(<<"A">>), Polygon(ClientRing)),
     ClientFeature(Num(2), 200, "Owner 2", Str(<<"A">>), Polygon(LargeRing)),
     ClientFeature(Num(3), 150, "Owner 1", Str(<<"B">>), Polygon(LargeRing)),
     ClientFeature(Num(4), 50, "Owner 3", Null, Polygon(ClientRing)),
     ClientFeature(Num(5), 10, "Owner 3", Str(<<" ">>), Polygon(ClientRing)),
     ClientFeature(Num(6), 20, "Owner 2", Str(<<"B">>), Point(<<-109, 47>>)),
     ClientFeature(Str(<<"invalid">>), 30, "Owner 1", Str(<<"A">>), Polygon(ClientRing)),
     ClientFeature(True, 40, "Owner 1", Str(<<"B">>), Polygon(ClientRing)),
     ClientFeature(Num(9), 60, "Owner 2", Str(<<"constructor">>), Polygon(ClientRing)),
     ClientFeature(Num(10), 70, "Owner 3", Str(<<"A">>),
                   [t |-> "obj", type |-> Str(<<"Polygon">>), coordinates |-> Arr(<<>>)]) >>

\* the j-th sequence of len features of ClientPool
ClientBatch(len, j) ==
  [k \in 1..len |-> ClientPool[((j \div Pow(Len(ClientPool), k - 1)) % Len(ClientPool)) + 1]]

\* the arguments of the client runs
ClientInputs ==
  UNION {{<<"client", len, j>> : j \in 0..(Pow(Len(ClientPool), len) - 1)} : len \in 1..MaxBatch}

\* the features array named by a designator of ClientInputs
ClientFeatures(input) == ClientBatch(input[2], input[3])

\* an array of features is chosen and nothing has been called yet
InitClient ==
  /\ paddocks = <<>>
  /\ projects = <<>>
  /\ req \in {[op |-> "client", input |-> d] : d \in ClientInputs}
  /\ res = [op |-> "none", status |-> 0, results |-> NoResults]

\* the call validateGeoJSONFeatureCollection({type: 'FeatureCollection', features})
ValidateCollectionCall ==
  /\ req.op = "client"
  /\ res.op = "none"
  /\ res' = [op |-> "validateGeoJSONFeatureCollection", status |-> 0,
             results |-> ValidateGeoJSONFeatureCollection(FeatureCollection(ClientFeatures(req.input)))]
  /\ UNCHANGED <<paddocks, projects, req>>

\* the call groupFeaturesByProject(features)
GroupCall ==
  /\ req.op = "client"
  /\ res.op = "none"
  /\ res' = [op |-> "groupFeaturesByProject", status |-> 0,
             results |-> GroupFeaturesByProject(ClientFeatures(req.input))]
  /\ UNCHANGED <<paddocks, projects, req>>

\* the call getProjectStatistics(groupFeaturesByProject(features))
StatisticsCall ==
  /\ req.op = "client"
  /\ res.op = "none"
  /\ LET grouped == GroupFeaturesByProject(ClientFeatures(req.input))
     IN res' = [op |-> "getProjectStatistics", status |-> 0,
                results |-> IF grouped.threw THEN [threw |-> TRUE, stats |-> <<>>]
                            ELSE [threw |-> FALSE, stats |-> GetProjectStatistics(grouped.groups)]]
  /\ UNCHANGED <<paddocks, projects, req>>

NextClient ==
  \/ ValidateCollectionCall
  \/ GroupCall
  \/ StatisticsCall

SpecClient == InitClient /\ [][NextClient]_vars

\* ----------------------------- specification, requests that interleave
\* Every handler is an async function: it runs until an await, where another
\* request may run, so a handler is one action per database operation it
\* awaits.  req.procs[p] is the local state of the handler in slot p: pc names
\* the operation it will issue next.  A step takes the request's arrival
\* together with its first database operation, and the last database operation
\* of a handler together with its response.  Documents carry the id they were
\* inserted with: <<request number, index>>.
MaxInFlight == 2

MaxRequests == 3

Slots == 1..MaxInFlight

\* the local variables of a handler that has not started
Blank ==
  [op |-> "none", pc |-> "idle", r |-> 0, features |-> <<>>, i |-> 0,
   acc |-> [total |-> 0, successful |-> 0, failed |-> 0, errors |-> <<>>, savedPaddocks |-> <<>>],
   names |-> <<>>, k |-> 0, group |-> <<>>, snapshot |-> <<>>, j |-> 0, data |-> <<>>,
   target |-> <<>>, deletedCount |-> 0]

\* the features of the uploads: one paddock of project A, one of project B
AsyncPool == <<FeatureA, FeatureB>>

\* the batches uploaded, as positions in AsyncPool
AsyncBatches == {<<1>>, <<2>>, <<1, 2>>}

InitAsync ==
  /\ paddocks = <<>>
  /\ projects = <<>>
  /\ req = [started |-> 0, procs |-> [p \in Slots |-> Blank]]
  /\ res = [p \in Slots |-> [op |-> "none", status |-> 0, results |-> NoResults]]

\* slot p is the first slot without a request in progress
Free(p) ==
  /\ req.procs[p].pc \in {"idle", "done"}
  /\ \A o \in Slots : o < p => req.procs[o].pc \notin {"idle", "done"}

\* the features that uploads in progress have still to save
Pending ==
  LET Rest(o) == IF req.procs[o].pc = "loop"
                 THEN Len(req.procs[o].features) - req.procs[o].i + 1 ELSE 0
      Total[o \in 0..MaxInFlight] == IF o = 0 THEN 0 ELSE Total[o - 1] + Rest(o)
  IN Total[MaxInFlight]

\* the handler in slot p goes on with the local state pr
Continue(p, pr) ==
  /\ req' = [req EXCEPT !.procs[p] = pr]
  /\ UNCHANGED res

\* the first step of a request: it takes the slot with the local state pr
Begin(p, pr) ==
  /\ req' = [started |-> req.started + 1, procs |-> [req.procs EXCEPT ![p] = pr]]
  /\ UNCHANGED res

\* res.json / res.status(...).json of the handler whose local state is pr
Respond(p, pr, status, results) ==
  /\ req' = [started |-> req.started + (IF pr.pc = "idle" THEN 1 ELSE 0),
             procs |-> [req.procs EXCEPT ![p] =
                          [Blank EXCEPT !.op = pr.op, !.pc = "done",
                                        !.deletedCount = pr.deletedCount]]]
  /\ res' = [res EXCEPT ![p] = [op |-> pr.op, status |-> status, results |-> results]]

\* the counters of an upload, as its response gives them
ResultsOf(pr) ==
  [total |-> pr.acc.total, successful |-> pr.acc.successful, failed |-> pr.acc.failed,
   errors |-> pr.acc.errors]

\* a document with the id it is inserted under
WithId(doc, id) == [id |-> id] @@ doc

\* the local state after the loop body for feature pr.i: the loop goes on, or
\* the names of the projects to update are taken
AfterSave(pr, step) ==
  LET acc == AddStep(pr.acc, step)
  IN IF pr.i < Len(pr.features)
     THEN [pr EXCEPT !.acc = acc, !.i = pr.i + 1]
     ELSE [pr EXCEPT !.acc = acc, !.i = pr.i + 1,
                     !.names = DistinctNames(acc.savedPaddocks, <<>>), !.k = 1,
                     !.pc = IF Len(acc.savedPaddocks) = 0 THEN "colors" ELSE "aggregate"]

\* the collection after the paddock.save() of the loop body
Saved(pr, step) ==
  paddocks \o [n \in 1..Len(step.saved) |-> WithId(step.saved[n], <<pr.r, pr.i>>)]

\* the loop body of the upload for feature pr.i, up to its await
SaveStep(pr) == FeatureStep("geojson", AsyncPool[pr.features[pr.i]], pr.i - 1)

\* POST /upload/geojson arrives and saves its first paddock
UploadStart(p) == \E batch \in AsyncBatches :
  /\ Free(p)
  /\ req.started < MaxRequests
  /\ Len(paddocks) + Pending + Len(batch) <= MaxPaddocks
  /\ ValidateGeoJSON(FeatureCollection([n \in 1..Len(batch) |-> AsyncPool[batch[n]]])).ok
  /\ LET pr == [Blank EXCEPT !.op = "upload", !.pc = "loop", !.r = req.started + 1,
                             !.features = batch, !.i = 1,
                             !.acc = [Blank.acc EXCEPT !.total = Len(batch)]]
     IN /\ paddocks' = Saved(pr, SaveStep(pr))
        /\ Begin(p, AfterSave(pr, SaveStep(pr)))
  /\ UNCHANGED projects

\* the next paddock.save() of the loop
UploadSave(p) ==
  /\ req.procs[p].pc = "loop"
  /\ paddocks' = Saved(req.procs[p], SaveStep(req.procs[p]))
  /\ Continue(p, AfterSave(req.procs[p], SaveStep(req.procs[p])))
  /\ UNCHANGED projects

\* updateProjectStats, first await: the aggregation over the paddocks
Aggregate(p) ==
  /\ req.procs[p].pc = "aggregate"
  /\ Continue(p, [req.procs[p] EXCEPT
                    !.group = ProjectGroup(paddocks, req.procs[p].names[req.procs[p].k]),
                    !.pc = "write"])
  /\ UNCHANGED <<paddocks, projects>>

\* the id of the project named name, or id when there is none
ProjectId(name, id) ==
  IF \E n \in 1..Len(projects) : projects[n].name = name
  THEN projects[CHOOSE n \in 1..Len(projects) : projects[n].name = name].id
  ELSE id

\* the Project collection after deleteOne or findOneAndUpdate, ids kept
Written(pr) ==
  LET name == pr.names[pr.k]
      after == ApplyStats(projects, name, pr.group)
  IN [n \in 1..Len(after) |->
        IF "id" \in DOMAIN after[n] THEN after[n]
        ELSE WithId(after[n], ProjectId(name, <<pr.r, pr.k>>))]

\* updateProjectStats, second await: deleteOne or findOneAndUpdate with what
\* the aggregation returned; then the next name, the colours, or the response
\* of DELETE /paddocks/:id
WriteStats(p) ==
  /\ req.procs[p].pc = "write"
  /\ projects' = Written(req.procs[p])
  /\ UNCHANGED paddocks
  /\ IF req.procs[p].k < Len(req.procs[p].names)
     THEN Continue(p, [req.procs[p] EXCEPT !.k = req.procs[p].k + 1, !.group = <<>>,
                                           !.pc = "aggregate"])
     ELSE IF req.procs[p].op = "deletePaddock"
     THEN Respond(p, req.procs[p], 200, NoResults)
     ELSE Continue(p, [req.procs[p] EXCEPT !.k = req.procs[p].k + 1, !.group = <<>>,
                                           !.pc = "colors"])

\* the first position from j on of a project that assignColors will colour,
\* 0 when there is none
NextToColor(snapshot, j) ==
  IF \E n \in j..Len(snapshot) : NeedsColor(snapshot[n])
  THEN CHOOSE n \in j..Len(snapshot) :
         NeedsColor(snapshot[n]) /\ \A m \in j..(n - 1) : ~NeedsColor(snapshot[m])
  ELSE 0

\* the response after the assignColors pass of the handler
Finished(p, pr) ==
  Respond(p, pr, 200, IF pr.op = "upload" THEN ResultsOf(pr) ELSE NoResults)

\* the handler after a find or a save of the pass, with the loop at position j
AfterPassStep(p, pr, snapshot, j) ==
  IF NextToColor(snapshot, j) = 0
  THEN Finished(p, pr)
  ELSE Continue(p, [pr EXCEPT !.pc = "assign", !.snapshot = snapshot,
                              !.j = NextToColor(snapshot, j)])

\* assignColors, first await: the projects in ascending createdAt order
AssignFind(p) ==
  /\ req.procs[p].pc = "colors"
  /\ AfterPassStep(p, req.procs[p], [n \in 1..Len(projects) |->
                                       [id |-> projects[n].id, color |-> projects[n].color]], 1)
  /\ UNCHANGED <<paddocks, projects>>

\* assignColors, project.save() of the project at position j of what find
\* returned: the colour is written to the document of that id
AssignSave(p) ==
  /\ req.procs[p].pc = "assign"
  /\ \E n \in 1..Len(projects) : projects[n].id = req.procs[p].snapshot[req.procs[p].j].id
  /\ projects' = [n \in 1..Len(projects) |->
                    IF projects[n].id = req.procs[p].snapshot[req.procs[p].j].id
                    THEN [projects[n] EXCEPT !.color =
                            Colors[((req.procs[p].j - 1) % Len(Colors)) + 1]]
                    ELSE projects[n]]
  /\ AfterPassStep(p, req.procs[p], req.procs[p].snapshot, req.procs[p].j + 1)
  /\ UNCHANGED paddocks

\* project.save() of a document that was deleted since find returned: the
\* save changes nothing, or it throws and the handler answers 500, depending
\* on the version of Mongoose
AssignSaveGone(p) ==
  /\ req.procs[p].pc = "assign"
  /\ \A n \in 1..Len(projects) : projects[n].id # req.procs[p].snapshot[req.procs[p].j].id
  /\ \/ AfterPassStep(p, req.procs[p], req.procs[p].snapshot, req.procs[p].j + 1)
     \/ Respond(p, req.procs[p], 500, NoResults)
  /\ UNCHANGED <<paddocks, projects>>

\* GET /projects arrives: Project.find, whose result is the data of the response
ListStart(p) ==
  /\ Free(p)
  /\ req.started < MaxRequests
  /\ Begin(p, [Blank EXCEPT !.op = "listProjects", !.pc = "colors", !.r = req.started + 1,
                            !.data = [n \in 1..Len(projects) |->
                                        [name |-> projects[n].name,
                                         totalPaddocks |-> projects[n].totalPaddocks]]])
  /\ UNCHANGED <<paddocks, projects>>

\* POST /projects/refresh-stats arrives: Paddock.distinct('projectName')
RefreshStart(p) ==
  /\ Free(p)
  /\ req.started < MaxRequests
  /\ Begin(p, [Blank EXCEPT !.op = "refreshStats", !.r = req.started + 1,
                            !.names = DistinctNames(paddocks, <<>>), !.k = 1,
                            !.pc = IF Len(paddocks) = 0 THEN "colors" ELSE "aggregate"])
  /\ UNCHANGED <<paddocks, projects>>

\* DELETE /paddocks/:id arrives: findById; n = 0 stands for an id no paddock has
DeletePaddockStart(p) == \E n \in 0..Len(paddocks) :
  /\ Free(p)
  /\ req.started < MaxRequests
  /\ IF n = 0
     THEN Respond(p, [Blank EXCEPT !.op = "deletePaddock"], 404, NoResults)
     ELSE Begin(p, [Blank EXCEPT !.op = "deletePaddock", !.pc = "deleteOne",
                                 !.r = req.started + 1, !.target = paddocks[n].id,
                                 !.names = <<paddocks[n].projectName.s>>, !.k = 1])
  /\ UNCHANGED <<paddocks, projects>>

\* paddock.deleteOne()
DeleteOne(p) ==
  /\ req.procs[p].pc = "deleteOne"
  /\ paddocks' = SelectSeq(paddocks, LAMBDA d : d.id # req.procs[p].target)
  /\ Continue(p, [req.procs[p] EXCEPT !.pc = "aggregate"])
  /\ UNCHANGED projects

\* DELETE /projects/:name arrives: Paddock.deleteMany({ projectName: name })
DeleteProjectStart(p) == \E name \in RouteNames :
  /\ Free(p)
  /\ req.started < MaxRequests
  /\ paddocks' = SelectSeq(paddocks, LAMBDA d : d.projectName.s # name)
  /\ Begin(p, [Blank EXCEPT !.op = "deleteProject", !.pc = "findOneAndDelete",
                            !.r = req.started + 1, !.names = <<name>>,
                            !.deletedCount = Len(paddocks) - Len(paddocks')])
  /\ UNCHANGED projects

\* Project.findOneAndDelete({ name }) and the response
FindOneAndDelete(p) ==
  /\ req.procs[p].pc = "findOneAndDelete"
  /\ projects' = SelectSeq(projects, LAMBDA q : q.name # req.procs[p].names[1])
  /\ Respond(p, req.procs[p],
             IF \E n \in 1..Len(projects) : projects[n].name = req.procs[p].names[1]
             THEN 200 ELSE 404,
             NoResults)
  /\ UNCHANGED paddocks

\* PUT /projects/:name with a colour in the body: one findOneAndUpdate
UpdateProjectStart(p) == \E name \in RouteNames :
  /\ Free(p)
  /\ req.started < MaxRequests
  /\ projects' = [n \in 1..Len(projects) |->
                    IF projects[n].name = name
                    THEN [projects[n] EXCEPT !.color = "#123456", !.customized = TRUE]
                    ELSE projects[n]]
  /\ Respond(p, [Blank EXCEPT !.op = "updateProject"],
             IF \E n \in 1..Len(projects) : projects[n].name = name THEN 200 ELSE 404,
             NoResults)
  /\ UNCHANGED paddocks

NextAsync ==
  \/ \E p \in Slots : UploadStart(p)
  \/ \E p \in Slots : UploadSave(p)
  \/ \E p \in Slots : Aggregate(p)
  \/ \E p \in Slots : WriteStats(p)
  \/ \E p \in Slots : AssignFind(p)
  \/ \E p \in Slots : AssignSave(p)
  \/ \E p \in Slots : AssignSaveGone(p)
  \/ \E p \in Slots : ListStart(p)
  \/ \E p \in Slots : RefreshStart(p)
  \/ \E p \in Slots : DeletePaddockStart(p)
  \/ \E p \in Slots : DeleteOne(p)
  \/ \E p \in Slots : DeleteProjectStart(p)
  \/ \E p \in Slots : FindOneAndDelete(p)
  \/ \E p \in Slots : UpdateProjectStart(p)

SpecAsync == InitAsync /\ [][NextAsync]_vars

\* uploads and paddock deletions only
NextRace ==
  \/ \E p \in Slots : UploadStart(p)
  \/ \E p \in Slots : UploadSave(p)
  \/ \E p \in Slots : Aggregate(p)
  \/ \E p \in Slots : WriteStats(p)
  \/ \E p \in Slots : AssignFind(p)
  \/ \E p \in Slots : AssignSave(p)
  \/ \E p \in Slots : AssignSaveGone(p)
  \/ \E p \in Slots : DeletePaddockStart(p)
  \/ \E p \in Slots : DeleteOne(p)

SpecRace == InitAsync /\ [][NextRace]_vars

\* -------------------------------------------------------------- properties
\* the body of the upload request last handled
ReqData == DataOf(req.input)

IsFeatureCollection(data) == data.t = "obj" /\ Get(data, "type") = Str(<<"FeatureCollection">>)

IsTopLevelFeature(data) == data.t = "obj" /\ Get(data, "type") = Str(<<"Feature">>)

\* the features of the input, a top-level Feature counting as a collection of one
InputFeatures(data) == IF IsTopLevelFeature(data) THEN <<data>> ELSE data.features.a

\* the five structural defects, stated on the input itself
StructurallyInvalid(data) ==
  \/ data.t # "obj"
  \/ ~IsTopLevelFeature(data) /\ ~IsFeatureCollection(data)
  \/ /\ IsFeatureCollection(data)
     /\ \/ Get(data, "features").t # "arr"
        \/ Len(data.features.a) = 0
        \/ Len(data.features.a) > MaxFeatures

\* the loop of the last upload ran to its end
UploadDone == req.op = "upload" /\ res.status = 200

\* C1: when the per-feature loop of an upload has finished, successful + failed
\* = total = the number of features of the (possibly wrapped) input.
C1_BatchAccounting ==
  UploadDone =>
    /\ res.results.successful + res.results.failed = res.results.total
    /\ res.results.total = Len(InputFeatures(ReqData))

\* C1 witness: a finished batch of two features, one stored and one rejected
C1_Witness ==
  /\ UploadDone
  /\ res.results.total = 2
  /\ res.results.successful = 1
  /\ res.results.failed = 1

\* C2: a top-level Feature sent to either upload route is processed as a batch of
\* one: the call completes with total = 1 and the results of the collection that
\* holds only that feature.
C2_SingleFeature ==
  (req.op = "upload" /\ IsTopLevelFeature(ReqData)) =>
    /\ res.status = 200
    /\ res.results.total = 1
    /\ res.results.successful + res.results.failed = 1
    /\ res.results.errors = ProcessFeatures(req.entry, <<ReqData>>).errors

\* C3: an upload of a structurally invalid input fails before any feature is
\* processed: the response is the failure, and no paddock, no project document
\* and no colour changes.
C3_StructuralReject ==
  [][(req'.op = "upload" /\ StructurallyInvalid(DataOf(req'.input))) =>
       /\ res'.status = 400
       /\ res'.results = NoResults
       /\ paddocks' = paddocks
       /\ projects' = projects]_vars

\* C3 witness: the collection of MaxFeatures + 1 features was refused while
\* paddocks and projects were stored
C3_Witness ==
  /\ req.op = "upload"
  /\ IsFeatureCollection(ReqData)
  /\ Get(ReqData, "features").t = "arr"
  /\ Len(ReqData.features.a) = MaxFeatures + 1
  /\ res.status = 400
  /\ Len(paddocks) > 0
  /\ Len(projects) > 0

\* a feature that passes the field validator and the schema validation
Accepted(entry, feature) ==
  /\ feature.t = "obj"
  /\ ValidateFeature(feature) = <<>>
  /\ SchemaErrors(CreateFromGeoJSONFeature(feature)) = {}

AcceptedAt(entry, features) == {k \in 1..Len(features) : Accepted(entry, features[k])}

\* the k-th smallest element of a set of numbers
RECURSIVE Kth(_, _)
Kth(S, k) ==
  LET m == CHOOSE x \in S : \A y \in S : x <= y
  IN IF k = 1 THEN m ELSE Kth(S \ {m}, k - 1)

\* a record with every required field set and a closed outer ring
FullyFormed(p) ==
  /\ RequiredStringOk(p.paddockId) /\ RequiredStringOk(p.name)
  /\ RequiredStringOk(p.owner) /\ RequiredStringOk(p.projectName)
  /\ p.areaAcres.t = "num" /\ p.areaAcres.n >= 0
  /\ p.geometry.t = "obj" /\ p.geometry.type = Str(<<"Polygon">>)
  /\ PolygonCoordinatesOk(p.geometry.coordinates.a)
  /\ p.isValid

\* what an upload of features did to the store: before and after are the
\* paddocks, ok the positions of the accepted features, n their number
StoredExactly(features, ok, n, before, after, results) ==
  /\ Len(after) = Len(before) + n
  /\ SubSeq(after, 1, Len(before)) = before
  /\ \A j \in 1..n :
       /\ after[Len(before) + j].originalProperties = features[Kth(ok, j)].properties
       /\ after[Len(before) + j].geometry = features[Kth(ok, j)].geometry
       /\ FullyFormed(after[Len(before) + j])
  /\ results.successful = n
  /\ results.failed = Len(features) - n
  /\ {results.errors[j].featureIndex : j \in 1..Len(results.errors)}
       = {k - 1 : k \in (1..Len(features)) \ ok}

StoredAccepted(features, ok, before, after, results) ==
  StoredExactly(features, ok, Cardinality(ok), before, after, results)

StoredFrom(entry, features, before, after, results) ==
  StoredAccepted(features, AcceptedAt(entry, features), before, after, results)

\* C4: a rejected feature never aborts the batch: the paddocks an upload stores
\* are, in input order, one fully formed record for each accepted feature and
\* nothing for a rejected one, and every feature is counted once.
C4_NoAbortNoPartial ==
  [][(req'.op = "upload" /\ res'.status = 200) =>
       StoredFrom(req'.entry, InputFeatures(DataOf(req'.input)), paddocks, paddocks',
                  res'.results)]_vars

\* C4 witness: the first feature of a batch of two was rejected and the second
\* one stored
C4_Witness ==
  /\ UploadDone
  /\ res.results.total = 2
  /\ res.results.successful = 1
  /\ Len(res.results.errors) = 1
  /\ res.results.errors[1].featureIndex = 0
  /\ Len(paddocks) > 0
  /\ paddocks[Len(paddocks)].originalProperties = InputFeatures(ReqData)[2].properties

ColorsOf(projs) == [i \in 1..Len(projs) |-> <<projs[i].name, projs[i].color>>]

\* C6: an assignColors pass that directly follows an assignColors pass, with no
\* project added, removed or edited in between, changes no colour.
C6_Idempotent ==
  [][(req.op = "listProjects" /\ req'.op = "listProjects") =>
       ColorsOf(projects') = ColorsOf(projects)]_vars

\* C6 witness: after a pass, two projects with two different colours, one of
\* them the default
C6_Witness ==
  /\ req.op = "listProjects"
  /\ Len(projects) = 2
  /\ projects[1].color = DefaultColor
  /\ projects[2].color # DefaultColor

\* C7: whatever colour a user has set on a project, no request other than a
\* later update of that project changes it.
C7_CustomKept ==
  [][\A i \in 1..Len(projects) : \A j \in 1..Len(projects') :
       (/\ projects[i].name = projects'[j].name
        /\ projects[i].customized
        /\ projects'[j].customized
        /\ ~(req'.op = "updateProject" /\ req'.name = projects[i].name))
       => projects'[j].color = projects[i].color]_vars

\* C8: an upload that adds exactly one project changes the colour of no project
\* that existed before it.
C8_OnlyNewColoured ==
  [][(req'.op = "upload" /\ Len(projects') = Len(projects) + 1) =>
       \A i \in 1..Len(projects) :
         /\ projects'[i].name = projects[i].name
         /\ projects'[i].color = projects[i].color]_vars

\* the last request ran an assignColors pass
AfterPass ==
  \/ UploadDone
  \/ req.op \in {"listProjects", "refreshStats"}

ColorBefore(projs, name) ==
  IF \E i \in 1..Len(projs) : projs[i].name = name
  THEN projs[CHOOSE i \in 1..Len(projs) : projs[i].name = name].color
  ELSE DefaultColor

C10_ProjectIffPaddock ==
  {projects[i].name : i \in 1..Len(projects)} = {paddocks[i].projectName.s : i \in 1..Len(paddocks)}

\* C10 witness: the deletion of the last paddock left no project behind
C10_Witness ==
  /\ req.op = "deletePaddock"
  /\ res.status = 200
  /\ paddocks = <<>>
  /\ projects = <<>>

\* the positions of the paddocks stored under the project named name
PaddocksOf(name) == {i \in 1..Len(paddocks) : paddocks[i].projectName.s = name}

\* the sum of a numeric field over the paddocks at the positions S, an unset
\* value counting as nothing
RECURSIVE SumOver(_, _)
SumOver(S, field) ==
  IF S = {} THEN 0
  ELSE LET i == CHOOSE x \in S : TRUE
       IN (IF paddocks[i][field].t = "num" THEN paddocks[i][field].n ELSE 0)
          + SumOver(S \ {i}, field)

\* the statistics of project q are those recomputed from the paddocks at S
StatsMatch(q, S) ==
  /\ q.totalPaddocks = Cardinality(S)
  /\ q.validPaddocks = Cardinality({i \in S : paddocks[i].isValid})
  /\ q.totalAreaAcres = SumOver(S, "areaAcres")
  /\ q.totalAreaHectares = SumOver(S, "areaHectares")
  /\ q.calculatedAreaHectares = SumOver(S, "calculatedAreaHectares")
  /\ q.owners = {paddocks[i].owner.s : i \in S}

\* C11: between requests, the statistics of every Project document (counts,
\* area sums and owner set) equal those recomputed from the paddocks now stored
\* under its name.
C11_NoDrift ==
  \A k \in 1..Len(projects) : StatsMatch(projects[k], PaddocksOf(projects[k].name))

\* C11 witness: one of the two paddocks of a project was deleted and the
\* project now counts the one that is left
C11_Witness ==
  /\ req.op = "deletePaddock"
  /\ res.status = 200
  /\ Len(paddocks) = 1
  /\ Len(projects) = 1
  /\ projects[1].totalPaddocks = 1
  /\ projects[1].totalAreaHectares > 0

C12_GroupingConsistent ==
  /\ SumProjects(projects, "totalPaddocks") = Len(paddocks)
  /\ \A i \in 1..Len(paddocks) :
       Cardinality({k \in 1..Len(projects) : projects[k].name = paddocks[i].projectName}) = 1
  /\ \A k \in 1..Len(projects) :
       projects[k].totalPaddocks =
         Cardinality({i \in 1..Len(paddocks) : paddocks[i].projectName = projects[k].name})

\* the outer ring has at least 4 positions and ends where it starts
RingClosed(ring) ==
  /\ Len(ring) >= 4
  /\ ring[1][1] = ring[Len(ring)][1]
  /\ ring[1][2] = ring[Len(ring)][2]

\* a feature with a Polygon geometry whose outer ring is open or too short
HasOpenRing(feature) ==
  /\ feature.t = "obj"
  /\ Truthy(Get(feature, "geometry"))
  /\ Get(feature.geometry, "coordinates").t = "arr"
  /\ ~RingClosed(feature.geometry.coordinates.a[1])

\* C14: every stored record has an outer ring of at least 4 positions whose first
\* and last positions are equal, and a feature whose outer ring is open or
\* shorter is counted as failed.
C14_Closure ==
  /\ \A i \in 1..Len(paddocks) : RingClosed(paddocks[i].geometry.coordinates.a[1])
  /\ (req.op = "simpleUpload" /\ req.input[1] = "simpleFeature" /\ HasOpenRing(ReqData))
       => res.results.failed = 1

\* every position of the ring has its longitude in [-180, 180] and its latitude
\* in [-90, 90]
RingInRange(ring) ==
  \A k \in 1..Len(ring) :
    /\ -180 <= ring[k][1] /\ ring[k][1] <= 180
    /\ -90 <= ring[k][2] /\ ring[k][2] <= 90

\* a feature with a Polygon whose outer ring has a position out of range
HasFarRing(feature) ==
  /\ feature.t = "obj"
  /\ Truthy(Get(feature, "geometry"))
  /\ Get(feature.geometry, "coordinates").t = "arr"
  /\ ~RingInRange(feature.geometry.coordinates.a[1])

NonNegative(x) == x.t = "num" /\ x.n >= 0

\* C16: every stored record has areaAcres >= 0, areaHectares >= 0 and
\* calculatedAreaHectares >= 0.
C16_NonNegative ==
  \A i \in 1..Len(paddocks) :
    /\ NonNegative(paddocks[i].areaAcres)
    /\ NonNegative(paddocks[i].areaHectares)
    /\ NonNegative(paddocks[i].calculatedAreaHectares)

\* C17: every stored record has calculatedAreaHectares set and equal to its
\* areaHectares, which is areaAcres * 0.404686.
C17_CalculatedArea ==
  \A i \in 1..Len(paddocks) :
    /\ paddocks[i].calculatedAreaHectares.t = "num"
    /\ paddocks[i].calculatedAreaHectares = paddocks[i].areaHectares
    /\ paddocks[i].areaHectares = Num(paddocks[i].areaAcres.n * HaPerAcre)

\* area_acres is present and does not start with a number
AreaUnparseable(props) ==
  /\ Get(props, "area_acres").t = "str"
  /\ Len(props.area_acres.s) > 0
  /\ LET s == TrimLeft(props.area_acres.s)
         body == IF Len(s) > 0 /\ Head(s) \in {"-", "+"} THEN Tail(s) ELSE s
     IN Len(body) = 0 \/ Head(body) \notin {"0", "1", "2", "3", "4", "5", "6", "7", "8", "9"}

\* a feature that is complete and valid but for its unparseable area_acres
OnlyAreaUnparseable(feature) ==
  /\ feature.t = "obj"
  /\ Get(feature, "type") = Str(<<"Feature">>)
  /\ Truthy(Get(feature, "properties"))
  /\ AreaUnparseable(feature.properties)
  /\ Truthy(Get(feature.properties, "id")) \/ Truthy(Get(feature.properties, "paddockId"))
  /\ Truthy(Get(feature.properties, "name")) \/ Truthy(Get(feature.properties, "paddock_name"))
  /\ Truthy(Get(feature.properties, "owner"))
  /\ Truthy(Get(feature.properties, "Project__Name")) \/ Truthy(Get(feature.properties, "project_name"))
  /\ Truthy(Get(feature, "geometry"))
  /\ Get(feature.geometry, "type") = Str(<<"Polygon">>)
  /\ Get(feature.geometry, "coordinates").t = "arr"
  /\ RingClosed(feature.geometry.coordinates.a[1])

\* the error entries of the last upload for the feature at position k (1-based)
EntriesFor(k) ==
  {j \in 1..Len(res.results.errors) : res.results.errors[j].featureIndex = k - 1}

\* C18 as claimed: a feature whose area_acres is present but unparseable, and
\* which is complete and valid otherwise, is accepted: no error entry is made
\* for it and it is stored with areaAcres = 0.
C18_UnparseableAccepted ==
  UploadDone =>
    \A k \in 1..Len(InputFeatures(ReqData)) :
      OnlyAreaUnparseable(InputFeatures(ReqData)[k]) =>
        /\ EntriesFor(k) = {}
        /\ \E i \in 1..Len(paddocks) :
             /\ paddocks[i].originalProperties = InputFeatures(ReqData)[k].properties
             /\ paddocks[i].areaAcres = Num(0)

\* C18 amended: on the routes of upload.js such a feature is rejected by the
\* field validator: it has one error entry, whose errors list is the area_acres
\* message, and no record with an unparseable area_acres is ever stored.
C18_UnparseableRejected ==
  /\ \A i \in 1..Len(paddocks) : ~AreaUnparseable(paddocks[i].originalProperties)
  /\ UploadDone =>
       \A k \in 1..Len(InputFeatures(ReqData)) :
         OnlyAreaUnparseable(InputFeatures(ReqData)[k]) =>
           /\ Cardinality(EntriesFor(k)) = 1
           /\ \A j \in EntriesFor(k) :
                /\ "errors" \in DOMAIN res.results.errors[j]
                /\ res.results.errors[j].errors = <<"Feature must have valid area_acres property">>

\* C18 witness: of a batch of two features the second, whose area_acres is
\* "abc", was rejected and the first was stored
C18_Witness ==
  /\ UploadDone
  /\ res.results.total = 2
  /\ res.results.successful = 1
  /\ res.results.failed = 1
  /\ OnlyAreaUnparseable(InputFeatures(ReqData)[2])
  /\ res.results.errors[1].featureIndex = 1

Given(props, key, other) == Truthy(Get(props, key)) \/ Truthy(Get(props, other))

\* s is a decimal numeral: an optional sign and one or more digits
IsNumeral(s) ==
  LET body == IF Len(s) > 0 /\ Head(s) \in {"-", "+"} THEN Tail(s) ELSE s
  IN Len(body) > 0 /\ \A k \in 1..Len(body) : IsDigit(body[k])

\* the value is a finite number or a string that reads as one
FiniteNumber(v) == v.t = "num" \/ (v.t = "str" /\ IsNumeral(v.s))

\* msg is among the messages validateFeature returned
Reported(msg) == \E k \in 1..Len(res.results.errors) : res.results.errors[k] = msg

\* C19: with properties present, validateFeature reports the message of each of
\* the five property rules exactly when that rule is violated; in particular an
\* area_acres that is a finite number, 0 included, gets no area message.
C19_RulesIndependent ==
  res.op = "validateFeature" =>
    LET props == ValidatorFeature(req.input).properties
    IN /\ Reported("Feature must have id or paddockId property")
            <=> ~Given(props, "id", "paddockId")
       /\ Reported("Feature must have name or paddock_name property")
            <=> ~Given(props, "name", "paddock_name")
       /\ Reported("Feature must have owner property")
            <=> ~Given(props, "owner", "owner")
       /\ Reported("Feature must have Project__Name or project_name property")
            <=> ~Given(props, "Project__Name", "project_name")
       /\ Reported("Feature must have valid area_acres property")
            <=> ~FiniteNumber(Get(props, "area_acres"))

\* the features given to the client function last called
CalledWith == ClientFeatures(req.input)

\* a feature whose geometry is an object of a type other than Polygon
NotPolygon(feature) ==
  feature.geometry # Null /\ Get(feature.geometry, "type") # Str(<<"Polygon">>)

\* C21: validateGeoJSONFeatureCollection throws for every FeatureCollection
\* that contains a feature whose geometry type is not Polygon.
C21_NonPolygonRejected ==
  (res.op = "validateGeoJSONFeatureCollection"
     /\ \E k \in 1..Len(CalledWith) : NotPolygon(CalledWith[k]))
    => res.results.threw

\* C22: validateGeoJSONFeatureCollection throws for every FeatureCollection
\* that contains a feature whose properties.id is not a number.
C22_NonNumericIdRejected ==
  (res.op = "validateGeoJSONFeatureCollection"
     /\ \E k \in 1..Len(CalledWith) : CalledWith[k].properties.id.t # "num")
    => res.results.threw

\* a feature with a non-empty coordinates array and a project name that is
\* neither null nor blank
Groupable(feature) ==
  /\ feature.geometry # Null
  /\ Get(feature.geometry, "coordinates").t = "arr"
  /\ Len(feature.geometry.coordinates.a) > 0
  /\ feature.properties.Project__Name.t = "str"
  /\ \E c \in 1..Len(feature.properties.Project__Name.s) :
       feature.properties.Project__Name.s[c] # " "

\* the groupable features of the input named name, in input order
ExpectedGroup(name) ==
  SelectSeq(CalledWith, LAMBDA f : Groupable(f) /\ f.properties.Project__Name.s = name)

\* the project names of the groupable features of the input
ExpectedNames ==
  {CalledWith[k].properties.Project__Name.s : k \in {i \in 1..Len(CalledWith) : Groupable(CalledWith[i])}}

\* C23: groupFeaturesByProject returns one group per project name of the
\* groupable features, holding exactly those features in input order, and no
\* other group; so no group is empty and the sizes sum to the number of
\* groupable features.
C23_Partition ==
  res.op = "groupFeaturesByProject" =>
    /\ ~res.results.threw
    /\ {res.results.groups[g].key : g \in 1..Len(res.results.groups)} = ExpectedNames
    /\ \A g, h \in 1..Len(res.results.groups) :
         res.results.groups[g].key = res.results.groups[h].key => g = h
    /\ \A g \in 1..Len(res.results.groups) :
         res.results.groups[g].features = ExpectedGroup(res.results.groups[g].key)

\* C24: getProjectStatistics returns one entry per group, whose featureCount is
\* the size of the group and whose totalArea is the sum of area_acres over the
\* group's features.
C24_Statistics ==
  res.op = "getProjectStatistics" =>
    /\ ~res.results.threw
    /\ {res.results.stats[e].projectName : e \in 1..Len(res.results.stats)} = ExpectedNames
    /\ Len(res.results.stats) = Cardinality(ExpectedNames)
    /\ \A e \in 1..Len(res.results.stats) :
         /\ res.results.stats[e].featureCount = Len(ExpectedGroup(res.results.stats[e].projectName))
         /\ Get(res.results.stats[e], "totalArea")
              = Num(SumAcres(ExpectedGroup(res.results.stats[e].projectName)))

\* the outer-ring vertices of the stored paddocks of the project named name
VerticesOf(name) ==
  UNION {{paddocks[i].geometry.coordinates.a[1][k] :
            k \in 1..Len(paddocks[i].geometry.coordinates.a[1])} : i \in PaddocksOf(name)}

\* the largest and the smallest member of a non-empty set of integers
Largest(S) == CHOOSE x \in S : \A y \in S : y <= x

Smallest(S) == CHOOSE x \in S : \A y \in S : x <= y

PassCompleted == req.op \in {"upload", "listProjects", "refreshStats"} /\ res.status = 200

\* C28: with no user colour change, whenever at most 12 projects exist and an
\* assignColors pass has completed since the last change, no two projects have
\* the same colour.
C28_DistinctColors ==
  (PassCompleted /\ Len(projects) <= Len(Colors)) =>
    \A i, j \in 1..Len(projects) : projects[i].color = projects[j].color => i = j

\* the handler in slot p is inside Project.assignColors
InPass(p) == req.procs[p].pc \in {"colors", "assign"}

\* the handler in slot p has a request in progress
InFlight(p) == req.procs[p].pc \notin {"idle", "done"}

\* C25: at most one assignColors pass is in flight at any time, and the pass of
\* an upload starts only after the per-feature loop of that upload has ended.
C25_PassSerialized ==
  /\ \A p, o \in Slots : (InPass(p) /\ InPass(o)) => p = o
  /\ \A p \in Slots :
       (InPass(p) /\ req.procs[p].op = "upload") => req.procs[p].i > Len(req.procs[p].features)

\* every stored paddock has a Project document of its projectName
EveryPaddockHasProject ==
  \A i \in 1..Len(paddocks) : \E q \in 1..Len(projects) : projects[q].name = paddocks[i].projectName.s

\* this step is the Project.find of a GET /projects that arrives
ReadStep ==
  \E p \in Slots :
    /\ req'.started = req.started + 1
    /\ req'.procs[p].op = "listProjects"
    /\ req'.procs[p].r = req'.started

\* C26: the Project.find of a GET /projects that runs while an upload is in
\* progress reads the state before the batch or the state after it: the
\* statistics of every project it reads are those of the paddocks stored at
\* that moment, and every paddock stored at that moment has its project.
C26_ReadSeesWholeBatch ==
  [][(ReadStep /\ \E o \in Slots : InFlight(o) /\ req.procs[o].op = "upload")
       => (C11_NoDrift /\ EveryPaddockHasProject)]_vars

\* C29: once a paddock deletion and an upload that ran concurrently have both
\* completed, every stored paddock's projectName has a Project document.
C29_NoOrphanPaddock ==
  (\A p \in Slots : ~InFlight(p)) => EveryPaddockHasProject

\* C30: a DELETE /projects/:name that ends with 404 has deleted no paddock.
C30_NotFoundDeletesNothing ==
  \A p \in Slots :
    (req.procs[p].op = "deleteProject" /\ req.procs[p].pc = "done" /\ res[p].status = 404)
      => req.procs[p].deletedCount = 0

====
